---- MODULE Spec2Model ----
(***************************************************************************)
(* A model of simple-orm-js: the per-table model object (CassandraModel),  *)
(* its validator and type converter, run by concurrent callers against one *)
(* table of the store.                                                     *)
(*                                                                         *)
(* JavaScript values are records [k, s, n]: k is the value's kind, s its   *)
(* string payload and n its numeric payload.  A JavaScript object (an      *)
(* input record, a converted record, a row) is a function from Names to    *)
(* values in which Undef marks an absent key.                              *)
(***************************************************************************)
EXTENDS Integers, Sequences, FiniteSets, TLC

\* ------------------------------------------------------------------ values

Undef == [k |-> "undefined", s |-> "", n |-> 0]
Null == [k |-> "null", s |-> "", n |-> 0]
NaN == [k |-> "nan", s |-> "", n |-> 0]
Str(x) == [k |-> "string", s |-> x, n |-> 0]
Num(i) == [k |-> "number", s |-> "", n |-> i]
Bool(b) == [k |-> "boolean", s |-> "", n |-> IF b THEN 1 ELSE 0]
\* An identifier object of the driver (types.Uuid, types.TimeUuid).
IdObj(class, i) == [k |-> "object", s |-> class, n |-> i]
\* A zero-argument function, as a `default` of a field definition.
Fn(tag) == [k |-> "function", s |-> tag, n |-> 0]

\* JavaScript truthiness (the operand of `!x` and of `x || y`).
Truthy(v) ==
  CASE v.k = "undefined" -> FALSE
    [] v.k = "null" -> FALSE
    [] v.k = "nan" -> FALSE
    [] v.k = "string" -> v.s # ""
    [] v.k = "number" -> v.n # 0
    [] v.k = "boolean" -> v.n = 1
    [] OTHER -> TRUE

\* String(v), also what a template literal `${v}` yields.
ToStr(v) ==
  CASE v.k = "string" -> v.s
    [] v.k = "number" -> ToString(v.n)
    [] v.k = "boolean" -> (IF v.n = 1 THEN "true" ELSE "false")
    [] v.k = "nan" -> "NaN"
    [] v.k = "object" -> v.s \o "-" \o ToString(v.n)
    [] OTHER -> v.k

\* typeof v
TypeOf(v) ==
  CASE v.k = "nan" -> "number"
    [] v.k = "null" -> "object"
    [] OTHER -> v.k

\* ------------------------------------------------------------------ schemas

Names == {"id", "sku", "email", "phone", "name", "status", "token", "age",
          "active", "created_at"}

EmptyObj == [f \in Names |-> Undef]

\* Object.keys(obj), as a set.
Keys(obj) == {f \in Names : obj[f] # Undef}

\* Elements of a sequence.
Range(seq) == {seq[i] : i \in 1..Len(seq)}

\* The right-hand side is the ValidationRule with no rule declared.  pattern
\* names the regular expression ("" for none) and custom the function ("" for
\* none).
NoRule ==
  [present |-> FALSE, required |-> FALSE, minLength |-> Undef,
   maxLength |-> Undef, min |-> Undef, max |-> Undef, isEmail |-> FALSE,
   pattern |-> "", isUrl |-> FALSE, isJson |-> FALSE, custom |-> ""]

\* A bare type tag: `id: 'uuid'`.
Bare(type) ==
  [bare |-> TRUE, type |-> type, unique |-> FALSE, default |-> Undef,
   validate |-> NoRule]

\* A structured field definition: `{type, validate?, default?, unique?}`.
Field(type, unique, default, rule) ==
  [bare |-> FALSE, type |-> type, unique |-> unique, default |-> default,
   validate |-> rule]

Rule(required, minLength, maxLength, min, max, isEmail) ==
  [present |-> TRUE, required |-> required, minLength |-> minLength,
   maxLength |-> maxLength, min |-> min, max |-> max, isEmail |-> isEmail,
   pattern |-> "", isUrl |-> FALSE, isJson |-> FALSE, custom |-> ""]

\* A uuid key named id, a field-level unique email, validated fields and a
\* field with a static default (after users_unique_field_v2 and
\* users_enhanced of the tests).
UsersSchema ==
  [table |-> "users",
   fields |-> <<"id", "email", "name", "status">>,
   defs |-> [f \in Names |->
              CASE f = "id" -> Bare("uuid")
                [] f = "email" ->
                     Field("text", TRUE, Undef,
                           Rule(TRUE, Undef, Undef, Undef, Undef, TRUE))
                [] f = "name" ->
                     Field("text", FALSE, Undef,
                           Rule(TRUE, Num(2), Num(50), Undef, Undef, FALSE))
                [] f = "status" -> Field("text", FALSE, Str("new"), NoRule)
                [] OTHER -> Bare("text")],
   key |-> <<"id">>,
   unique |-> <<>>]

\* A nanoid key named id, a field-level unique email that the schema-level
\* list names again beside phone (after accounts_mixed_unique_v2 of the
\* tests).
AccountsSchema ==
  [table |-> "accounts",
   fields |-> <<"id", "email", "phone">>,
   defs |-> [f \in Names |->
              CASE f = "id" -> Bare("nanoid")
                [] f = "email" -> Field("text", TRUE, Undef, NoRule)
                [] OTHER -> Bare("text")],
   key |-> <<"id">>,
   unique |-> <<"phone", "email">>]

\* A text key that is not named id, a schema-level unique list, and an
\* identifier-typed field outside the key.
ProductsSchema ==
  [table |-> "products",
   fields |-> <<"sku", "email", "token">>,
   defs |-> [f \in Names |->
              CASE f = "token" -> Bare("uuid")
                [] OTHER -> Bare("text")],
   key |-> <<"sku">>,
   unique |-> <<"email">>]

Schemas == {UsersSchema, AccountsSchema, ProductsSchema}

\* The schema of the malformed-data test: a format rule on email and a
\* range on age, neither field required.
MalformedSchema ==
  [table |-> "malformed_test",
   fields |-> <<"id", "email", "age">>,
   defs |-> [f \in Names |->
              CASE f = "id" -> Bare("uuid")
                [] f = "email" ->
                     Field("text", FALSE, Undef,
                           Rule(FALSE, Undef, Undef, Undef, Undef, TRUE))
                [] f = "age" ->
                     Field("int", FALSE, Undef,
                           Rule(FALSE, Undef, Undef, Num(0), Num(150), FALSE))
                [] OTHER -> Bare("text")],
   key |-> <<"id">>,
   unique |-> <<>>]

\* -------------------------------------------------------------------- state

VARIABLES
  schema,    \* the ModelSchema the table was loaded with
  table,     \* the rows of the table in the store
  nextGen,   \* identifiers drawn from the random source so far
  pc,        \* per caller: idle, findOne, unique, write or done
  call,      \* per caller: the operation and its arguments
  uidx,      \* per caller: position of checkUniqueConstraints in its loop
  cur,       \* per caller: currentRecord of update (Null row: EmptyObj)
  found,     \* per caller: whether update's findOne returned a row
  outcome,   \* per caller: how the call ended and what it returned
  steps,     \* per caller: the steps of the call so far, in order
  snap,      \* per caller: the table when the call started
  seen,      \* per caller: kinds of writes others ran during the call
  fin,       \* the arguments of a direct call of Validator or TypeConverter
  fout,      \* the result of that call
  fprev,     \* the result of the direct call before it
  invoked,   \* invocations of function-valued defaults so far
  createKeyspace, \* config.ormOptions.createKeyspace
  connected, \* CassandraORM.connected
  models,    \* CassandraORM.models.get(tableName): 0, or the model's identity
  constructed, \* CassandraModel objects constructed so far
  ddl,       \* the schema statements executed so far, in order
  lpc,       \* per caller: position in loadSchema
  lidx,      \* per caller: index statements createTable has issued
  loads,     \* loadSchema calls started so far
  returned   \* the models the loadSchema calls returned, in order

\* The state of the CassandraORM client and of the loadSchema calls.
client ==
  <<createKeyspace, connected, models, constructed, ddl, lpc, lidx, loads,
    returned>>

vars ==
  <<schema, table, nextGen, pc, call, uidx, cur, found, outcome, steps,
    snap, seen, fin, fout, fprev, invoked, client>>

\* A unique field that declares a static default.
DraftsSchema ==
  [table |-> "drafts",
   fields |-> <<"id", "name", "email">>,
   defs |-> [f \in Names |->
              CASE f = "id" -> Bare("uuid")
                [] f = "name" -> Field("text", TRUE, Str("untitled"), NoRule)
                [] OTHER -> Bare("text")],
   key |-> <<"id">>,
   unique |-> <<>>]

\* ---------------------------------------------------------------- validator

\* email.test(/^[^\s@]+@[^\s@]+\.[^\s@]+$/): local@domain.tld, each part
\* non-empty and free of white space and of "@".
NoSpaceAt(str) ==
  \A i \in 1..Len(str) : SubSeq(str, i, i) \notin {" ", "@"}

isValidEmail(email) ==
  \E i, j \in 1..Len(email) :
    /\ i < j
    /\ SubSeq(email, i, i) = "@"
    /\ SubSeq(email, j, j) = "."
    /\ i > 1 /\ NoSpaceAt(SubSeq(email, 1, i - 1))
    /\ j > i + 1 /\ NoSpaceAt(SubSeq(email, i + 1, j - 1))
    /\ j < Len(email) /\ NoSpaceAt(SubSeq(email, j + 1, Len(email)))

LowerCase ==
  {"a", "b", "c", "d", "e", "f", "g", "h", "i", "j", "k", "l", "m", "n",
   "o", "p", "q", "r", "s", "t", "u", "v", "w", "x", "y", "z"}

AllIn(str, chars) == \A i \in 1..Len(str) : SubSeq(str, i, i) \in chars

UpperCase ==
  {"A", "B", "C", "D", "E", "F", "G", "H", "I", "J", "K", "L", "M", "N",
   "O", "P", "Q", "R", "S", "T", "U", "V", "W", "X", "Y", "Z"}

\* rule.pattern.test(value) for the pattern of the documentation,
\* /^[a-zA-Z\s]+$/ (only letters and spaces).
PatternTest(pattern, str) ==
  IF pattern = "^[a-zA-Z\\s]+$"
  THEN Len(str) > 0 /\ AllIn(str, LowerCase \cup UpperCase \cup {" "})
  ELSE TRUE

RECURSIVE StripSlashes(_)
StripSlashes(str) ==
  IF Len(str) > 0 /\ SubSeq(str, 1, 1) = "/"
  THEN StripSlashes(SubSeq(str, 2, Len(str))) ELSE str

\* `new URL(url)` does not throw: a scheme (a letter, then letters and
\* digits; lower case here) before the first ":", and a host after it when
\* the scheme is one of the special schemes that need one.
isValidUrl(url) ==
  \E i \in 2..Len(url) :
    /\ SubSeq(url, i, i) = ":"
    /\ SubSeq(url, 1, 1) \in LowerCase
    /\ AllIn(SubSeq(url, 1, i - 1), LowerCase \cup Range(<<"0", "1", "2",
             "3", "4", "5", "6", "7", "8", "9">>))
    /\ SubSeq(url, 1, i - 1) \in {"http", "https", "ftp", "ws", "wss"}
         => Len(StripSlashes(SubSeq(url, i + 1, Len(url)))) > 0

\* `JSON.parse(json)` does not throw, for texts without white space and
\* nesting: a literal, an integer, a string without escapes, {} or [].
isValidJson(json) ==
  LET digits == {"0", "1", "2", "3", "4", "5", "6", "7", "8", "9"}
      abs == IF Len(json) > 0 /\ SubSeq(json, 1, 1) = "-"
             THEN SubSeq(json, 2, Len(json)) ELSE json
  IN  \/ json \in {"true", "false", "null", "{}", "[]"}
      \/ /\ Len(abs) > 0
         /\ AllIn(abs, digits)
         /\ Len(abs) > 1 => SubSeq(abs, 1, 1) # "0"
      \/ /\ Len(json) >= 2
         /\ SubSeq(json, 1, 1) = "\""
         /\ SubSeq(json, Len(json), Len(json)) = "\""
         /\ \A i \in 2..(Len(json) - 1) :
              SubSeq(json, i, i) \notin {"\"", "\\"}

\* rule.custom(value) for the functions the rules name: one that accepts
\* everything, one that returns a message, one that returns false, one that
\* returns 1, and the password rule of the tests.
CustomResult(custom, value) ==
  CASE custom = "accept" -> Bool(TRUE)
    [] custom = "message" -> Str("rejected by rule")
    [] custom = "false" -> Bool(FALSE)
    [] custom = "one" -> Num(1)
    [] OTHER -> \* value.length >= 8 ? true : '...'
         IF value.k = "string" /\ Len(value.s) >= 8
         THEN Bool(TRUE)
         ELSE Str("Password must be at least 8 characters")

\* A variant of IsEmpty that takes the empty string for a value.
IsEmptyNoBlank(value) == value = Undef \/ value = Null

\* A variant of Defined that takes 0 for no bound.
DefinedNonZero(bound) == Truthy(bound)

\* `rule.min !== undefined`
Defined(bound) == bound # Undef

\* A variant of customErrors that accepts every truthy result.
customErrorsTruthy(fieldName, result) ==
  IF Truthy(result) THEN <<>>
  ELSE IF TypeOf(result) = "string" THEN <<result.s>>
  ELSE <<fieldName \o " is invalid">>

\* What validateField appends for the result of rule.custom.
customErrors(fieldName, result) ==
  IF result = Bool(TRUE) THEN <<>>
  ELSE IF TypeOf(result) = "string" THEN <<result.s>>
  ELSE <<fieldName \o " is invalid">>

\* value === undefined || value === null || value === ''
IsEmpty(value) == value = Undef \/ value = Null \/ value = Str("")

validateField(fieldName, value, rule) ==
  IF rule.required /\ IsEmpty(value)
  THEN <<fieldName \o " is required">>
  ELSE IF IsEmpty(value)
  THEN <<>>
  ELSE
    (IF TypeOf(value) = "string"
     THEN (IF Truthy(rule.minLength) /\ Len(value.s) < rule.minLength.n
           THEN <<fieldName \o " must be at least "
                    \o ToStr(rule.minLength) \o " characters">>
           ELSE <<>>)
          \o
          (IF Truthy(rule.maxLength) /\ Len(value.s) > rule.maxLength.n
           THEN <<fieldName \o " must be at most "
                    \o ToStr(rule.maxLength) \o " characters">>
           ELSE <<>>)
          \o
          (IF rule.pattern # "" /\ ~PatternTest(rule.pattern, value.s)
           THEN <<fieldName \o " format is invalid">>
           ELSE <<>>)
          \o
          (IF rule.isEmail /\ ~isValidEmail(value.s)
           THEN <<fieldName \o " must be a valid email">>
           ELSE <<>>)
          \o
          (IF rule.isUrl /\ ~isValidUrl(value.s)
           THEN <<fieldName \o " must be a valid URL">>
           ELSE <<>>)
          \o
          (IF rule.isJson /\ ~isValidJson(value.s)
           THEN <<fieldName \o " must be valid JSON">>
           ELSE <<>>)
     ELSE <<>>)
    \o
    (IF value.k = "number"
     THEN (IF Defined(rule.min) /\ value.n < rule.min.n
           THEN <<fieldName \o " must be at least " \o ToStr(rule.min)>>
           ELSE <<>>)
          \o
          (IF Defined(rule.max) /\ value.n > rule.max.n
           THEN <<fieldName \o " must be at most " \o ToStr(rule.max)>>
           ELSE <<>>)
     ELSE <<>>)
    \o
    (IF rule.custom # ""
     THEN customErrors(fieldName, CustomResult(rule.custom, value))
     ELSE <<>>)

\* The arguments validateField passes to rule.custom, one per invocation.
customCalls(fieldName, value, rule) ==
  IF IsEmpty(value) \/ rule.custom = "" THEN <<>> ELSE <<value>>

\* getValidationRule: null for a bare type tag or a definition without
\* `validate`; NoRule stands for null.
getValidationRule(fieldDef) ==
  IF fieldDef.bare THEN NoRule ELSE fieldDef.validate

RECURSIVE ValidateFromNoSkip(_, _, _, _)
\* A variant of ValidateFrom that validates omitted fields in update mode
\* too.
ValidateFromNoSkip(i, data, sch, isUpdate) ==
  IF i > Len(sch.fields)
  THEN <<>>
  ELSE LET fieldName == sch.fields[i]
           rule == getValidationRule(sch.defs[fieldName])
           here == IF ~rule.present THEN <<>>
                   ELSE validateField(fieldName, data[fieldName], rule)
       IN  here \o ValidateFromNoSkip(i + 1, data, sch, isUpdate)

RECURSIVE ValidateFrom(_, _, _, _)
ValidateFrom(i, data, sch, isUpdate) ==
  IF i > Len(sch.fields)
  THEN <<>>
  ELSE LET fieldName == sch.fields[i]
           rule == getValidationRule(sch.defs[fieldName])
           value == data[fieldName]
           here == IF ~rule.present THEN <<>>
                   ELSE IF isUpdate /\ value = Undef THEN <<>>
                   ELSE validateField(fieldName, value, rule)
       IN  here \o ValidateFrom(i + 1, data, sch, isUpdate)

\* Validator.validate(data, fields, isUpdate): the violation messages, in
\* field-declaration order.
validate(data, sch, isUpdate) == ValidateFrom(1, data, sch, isUpdate)

RECURSIVE Join(_, _)
Join(msgs, sep) ==
  IF Len(msgs) = 0 THEN ""
  ELSE IF Len(msgs) = 1 THEN msgs[1]
  ELSE msgs[1] \o sep \o Join(Tail(msgs), sep)

\* A variant of ValidationMessage that reports the first violation only.
ValidationMessageFirstOnly(errors) == "Validation failed: " \o errors[1]

\* The message of the error create and update throw on violations.
ValidationMessage(errors) == "Validation failed: " \o Join(errors, ", ")

\* ---------------------------------------------------------------- converter

\* A variant of IdTypes without nanoid.
IdTypesNoNanoid == {"uuid", "timeuuid"}

IdTypes == {"uuid", "nanoid", "timeuuid"}

Digits == <<"0", "1", "2", "3", "4", "5", "6", "7", "8", "9">>

DigitVal(c) == (CHOOSE d \in 1..10 : Digits[d] = c) - 1

RECURSIVE LeadingDigits(_, _)
LeadingDigits(str, acc) ==
  IF Len(str) = 0 \/ SubSeq(str, 1, 1) \notin Range(Digits)
  THEN acc
  ELSE LeadingDigits(SubSeq(str, 2, Len(str)),
                     acc * 10 + DigitVal(SubSeq(str, 1, 1)))

\* parseInt(v, 10) of a number or of a string (no white space in the inputs).
ParseInt(v) ==
  IF v.k = "number" THEN v
  ELSE IF v.k # "string" \/ Len(v.s) = 0 THEN NaN
  ELSE LET neg == SubSeq(v.s, 1, 1) = "-"
           rest == IF SubSeq(v.s, 1, 1) \in {"-", "+"}
                   THEN SubSeq(v.s, 2, Len(v.s)) ELSE v.s
       IN  IF Len(rest) = 0 \/ SubSeq(rest, 1, 1) \notin Range(Digits)
           THEN NaN
           ELSE Num((IF neg THEN -1 ELSE 1) * LeadingDigits(rest, 0))

\* `v instanceof Date`
InstanceOfDate(v) == v.k = "object" /\ SubSeq(v.s, 1, 4) = "Date"

\* `new Date(v)`: a Date object made from v.
NewDate(v) == [k |-> "object", s |-> "Date " \o ToStr(v), n |-> 0]

\* A variant of convert whose identifiers are not random: every generated
\* identifier is the same.
convertFixedId(value, type, draw) ==
  CASE type = "uuid" -> IF Truthy(value) THEN value ELSE IdObj("Uuid", 1)
    [] type = "timeuuid" ->
         IF Truthy(value) THEN value ELSE IdObj("TimeUuid", 1)
    [] type = "nanoid" -> IF Truthy(value) THEN value ELSE Str("nanoid-1")
    [] type \in {"text", "ascii", "varchar", "duration", "decimal"} ->
         Str(ToStr(value))
    [] type \in {"int", "smallint", "tinyint"} -> ParseInt(value)
    [] type = "boolean" -> Bool(Truthy(value))
    [] type \in {"timestamp", "date", "time"} ->
         IF InstanceOfDate(value) THEN value ELSE NewDate(value)
    [] OTHER -> value

\* TypeConverter.convert(value, type); draw is the number of the identifier
\* the random source yields if the converter generates one.
convert(value, type, draw) ==
  CASE type = "uuid" ->
         IF Truthy(value) THEN value ELSE IdObj("Uuid", draw)
    [] type = "timeuuid" ->
         IF Truthy(value) THEN value ELSE IdObj("TimeUuid", draw)
    [] type = "nanoid" ->
         IF Truthy(value) THEN value ELSE Str("nanoid-" \o ToString(draw))
    [] type \in {"text", "ascii", "varchar", "duration", "decimal"} ->
         Str(ToStr(value))
    [] type \in {"int", "smallint", "tinyint"} -> ParseInt(value)
    [] type = "boolean" -> Bool(Truthy(value))
    [] type \in {"timestamp", "date", "time"} ->
         IF InstanceOfDate(value) THEN value ELSE NewDate(value)
    [] OTHER -> value

\* getFieldType(fieldDef)
getFieldType(fieldDef) == fieldDef.type

\* convertObject throws a TypeError when getFieldType reads `.type` of the
\* undefined definition of an undeclared key.
ConvertThrows(data, sch) == \E key \in Keys(data) : key \notin Range(sch.fields)

\* A variant of convertObject that applies no default.
convertObjectNoDefaults(data, sch, draw) ==
  [f \in Names |->
    IF f \notin Range(sch.fields)
    THEN data[f]
    ELSE LET type == sch.defs[f].type
             first == IF data[f] # Undef
                      THEN convert(data[f], type, draw) ELSE Undef
         IN  IF ~Truthy(first) /\ type \in IdTypes
             THEN convert(Undef, type, draw) ELSE first]

\* result[fieldName] of convertObject(data, fields) when its second loop
\* reaches the test for a default: the converted input, or a generated
\* identifier.
Filled(data, sch, f, draw) ==
  LET type == getFieldType(sch.defs[f])
      first == IF data[f] # Undef THEN convert(data[f], type, draw) ELSE Undef
  IN  IF ~Truthy(first) /\ type \in IdTypes
      THEN convert(Undef, type, draw) ELSE first

\* `typeof fieldDef === 'object' && fieldDef.default !== undefined &&
\* result[fieldName] === undefined`
NeedsDefault(data, sch, f) ==
  /\ ~sch.defs[f].bare
  /\ sch.defs[f].default # Undef
  /\ Filled(data, sch, f, 1) = Undef

\* The fields whose function-valued default convertObject(data, fields)
\* invokes, in the order of the invocations.
InvokedFields(data, sch) ==
  SelectSeq(sch.fields,
            LAMBDA f : /\ ~ConvertThrows(data, sch)
                       /\ NeedsDefault(data, sch, f)
                       /\ TypeOf(sch.defs[f].default) = "function")

\* What the nth invocation of a function-valued default returns:
\* `() => new Date()` builds a new Date object, every other function here
\* a new string.
Invoke(default, nth) ==
  IF default.s = "now" THEN IdObj("Date", nth)
  ELSE Str(default.s \o "-" \o ToString(nth))

\* A variant of DefaultValue that invokes a function once and keeps what it
\* returned for every later call.
DefaultValueCached(data, sch, f) ==
  LET default == sch.defs[f].default
  IN  IF TypeOf(default) = "function" THEN Invoke(default, 1) ELSE default

\* `typeof fieldDef.default === 'function' ? fieldDef.default() :
\* fieldDef.default`, for field f of convertObject(data, fields).
DefaultValue(data, sch, f) ==
  LET default == sch.defs[f].default
      order == InvokedFields(data, sch)
      nth == CHOOSE i \in 1..Len(order) : order[i] = f
  IN  IF TypeOf(default) = "function"
      THEN Invoke(default, invoked + nth) ELSE default

\* A variant of convertObject that applies a default to every falsy value.
convertObjectDefaultsFalsy(data, sch, draw) ==
  [f \in Names |->
    IF f \notin Range(sch.fields)
    THEN data[f]
    ELSE IF /\ ~sch.defs[f].bare
            /\ sch.defs[f].default # Undef
            /\ ~Truthy(Filled(data, sch, f, draw))
    THEN (IF NeedsDefault(data, sch, f)
          THEN DefaultValue(data, sch, f) ELSE sch.defs[f].default)
    ELSE Filled(data, sch, f, draw)]

\* TypeConverter.convertObject(data, fields): the converted record.
convertObject(data, sch, draw) ==
  [f \in Names |->
    IF f \notin Range(sch.fields)
    THEN data[f]
    ELSE IF NeedsDefault(data, sch, f)
    THEN DefaultValue(data, sch, f)
    ELSE Filled(data, sch, f, draw)]

\* The type tags of CassandraType.
CassandraTypes ==
  {"uuid", "timeuuid", "text", "ascii", "varchar", "int", "bigint",
   "smallint", "tinyint", "varint", "float", "double", "decimal", "boolean",
   "timestamp", "date", "time", "duration", "blob", "inet", "counter",
   "set<text>", "set<int>", "set<uuid>", "set<timestamp>", "list<text>",
   "list<int>", "list<uuid>", "list<timestamp>", "map<text,text>",
   "map<text,int>", "map<int,text>", "map<uuid,text>", "tuple<text,int>",
   "tuple<uuid,text>", "tuple<text,text,int>", "nanoid", "json"}

\* A variant of typeMap that gives json a native type of its own.
typeMapJsonNative ==
  <<<<"uuid", "uuid">>, <<"timeuuid", "timeuuid">>, <<"nanoid", "text">>,
    <<"text", "text">>, <<"ascii", "ascii">>, <<"varchar", "varchar">>,
    <<"int", "int">>, <<"bigint", "bigint">>, <<"smallint", "smallint">>,
    <<"tinyint", "tinyint">>, <<"varint", "varint">>,
    <<"counter", "counter">>, <<"float", "float">>, <<"double", "double">>,
    <<"decimal", "decimal">>, <<"boolean", "boolean">>,
    <<"timestamp", "timestamp">>, <<"date", "date">>, <<"time", "time">>,
    <<"duration", "duration">>, <<"blob", "blob">>, <<"inet", "inet">>,
    <<"set<text>", "set<text>">>, <<"set<int>", "set<int>">>,
    <<"set<uuid>", "set<uuid>">>, <<"set<timestamp>", "set<timestamp>">>,
    <<"list<text>", "list<text>">>, <<"list<int>", "list<int>">>,
    <<"list<uuid>", "list<uuid>">>, <<"list<timestamp>", "list<timestamp>">>,
    <<"map<text,text>", "map<text,text>">>,
    <<"map<text,int>", "map<text,int>">>,
    <<"map<int,text>", "map<int,text>">>,
    <<"map<uuid,text>", "map<uuid,text>">>,
    <<"tuple<text,int>", "tuple<text,int>">>,
    <<"tuple<uuid,text>", "tuple<uuid,text>">>,
    <<"tuple<text,text,int>", "tuple<text,text,int>">>,
    <<"json", "json">>>>

\* The typeMap of getCassandraType: the pairs of a type tag and the store's
\* type name.
typeMap ==
  <<<<"uuid", "uuid">>, <<"timeuuid", "timeuuid">>, <<"nanoid", "text">>,
    <<"text", "text">>, <<"ascii", "ascii">>, <<"varchar", "varchar">>,
    <<"int", "int">>, <<"bigint", "bigint">>, <<"smallint", "smallint">>,
    <<"tinyint", "tinyint">>, <<"varint", "varint">>,
    <<"counter", "counter">>, <<"float", "float">>, <<"double", "double">>,
    <<"decimal", "decimal">>, <<"boolean", "boolean">>,
    <<"timestamp", "timestamp">>, <<"date", "date">>, <<"time", "time">>,
    <<"duration", "duration">>, <<"blob", "blob">>, <<"inet", "inet">>,
    <<"set<text>", "set<text>">>, <<"set<int>", "set<int>">>,
    <<"set<uuid>", "set<uuid>">>, <<"set<timestamp>", "set<timestamp>">>,
    <<"list<text>", "list<text>">>, <<"list<int>", "list<int>">>,
    <<"list<uuid>", "list<uuid>">>, <<"list<timestamp>", "list<timestamp>">>,
    <<"map<text,text>", "map<text,text>">>,
    <<"map<text,int>", "map<text,int>">>,
    <<"map<int,text>", "map<int,text>">>,
    <<"map<uuid,text>", "map<uuid,text>">>,
    <<"tuple<text,int>", "tuple<text,int>">>,
    <<"tuple<uuid,text>", "tuple<uuid,text>">>,
    <<"tuple<text,text,int>", "tuple<text,text,int>">>,
    <<"json", "text">>>>

\* getCassandraType(type): `typeMap[type] || 'text'`
getCassandraType(type) ==
  LET hits == {i \in 1..Len(typeMap) : typeMap[i][1] = type}
  IN  IF hits = {} THEN "text" ELSE typeMap[CHOOSE i \in hits : TRUE][2]

\* Whether convertObject(data, fields) draws an identifier: its second loop
\* does, and is reached only if the first loop did not throw.
Generates(data, sch) ==
  /\ ~ConvertThrows(data, sch)
  /\ \E f \in Range(sch.fields) :
       getFieldType(sch.defs[f]) \in IdTypes /\ ~Truthy(data[f])

\* ------------------------------------------------------------ unique fields

RECURSIVE Dedup(_)
Dedup(seq) ==
  IF Len(seq) = 0 THEN <<>>
  ELSE LET init == Dedup(SubSeq(seq, 1, Len(seq) - 1))
           last == seq[Len(seq)]
       IN  IF last \in Range(init) THEN init ELSE Append(init, last)

\* A variant of getUniqueFields that takes the field declarations first.
getUniqueFieldsDeclaredFirst(sch) ==
  Dedup(SelectSeq(sch.fields,
                  LAMBDA f : ~sch.defs[f].bare /\ sch.defs[f].unique)
        \o sch.unique)

\* getUniqueFields(): schema.unique, then the fields declared unique: true,
\* without duplicates.
getUniqueFields(sch) ==
  Dedup(sch.unique
        \o SelectSeq(sch.fields,
                     LAMBDA f : ~sch.defs[f].bare /\ sch.defs[f].unique))

\* A variant of UniqueMessage that leaves the value unquoted.
UniqueMessageNoQuotes(field, value) ==
  field \o " " \o ToStr(value) \o " already exists"

\* The message of the error checkUniqueConstraints throws.
UniqueMessage(field, value) ==
  field \o " '" \o ToStr(value) \o "' already exists"

\* -------------------------------------------------------------------- store

\* The number of identifiers the random source may yield in a run.
MaxGen == 2

Procs == {1, 2}

\* The primary-key columns of a row.
KeyOf(row, sch) == [f \in Range(sch.key) |-> row[f]]

\* The rows a `WHERE k1 = ? AND k2 = ?` predicate selects.
Matching(tbl, where) ==
  {r \in tbl : \A f \in Keys(where) : r[f] = where[f]}

\* INSERT INTO t (cols) VALUES (...): rows are identified by their primary
\* key, so an insert on an existing key overwrites the columns it names.
StoreInsert(tbl, cols, sch) ==
  LET same == {r \in tbl : KeyOf(r, sch) = KeyOf(cols, sch)}
      merged == {[f \in Names |-> IF cols[f] # Undef THEN cols[f] ELSE r[f]] :
                   r \in same}
  IN  IF same = {} THEN tbl \cup {cols} ELSE (tbl \ same) \cup merged

\* The store rejects a write that leaves a primary-key column unset.
KeyMissing(cols, sch) == \E f \in Range(sch.key) : cols[f] \in {Undef, Null}

\* UPDATE t SET set WHERE where: the selected rows take the new column
\* values; a predicate that names a full primary key no row has yet writes
\* that row.
StoreUpdate(tbl, set, where, sch) ==
  LET hit == Matching(tbl, where)
      write(r) == [f \in Names |-> IF set[f] # Undef THEN set[f] ELSE r[f]]
  IN  IF hit = {} /\ Keys(where) = Range(sch.key)
      THEN tbl \cup {write(where)}
      ELSE (tbl \ hit) \cup {write(r) : r \in hit}

\* DELETE FROM t WHERE where
StoreDelete(tbl, where) == tbl \ Matching(tbl, where)

\* The orders in which the store may return the given rows.
Orders(rows) ==
  {seq \in [1..Cardinality(rows) -> rows] : Range(seq) = rows}

\* `if (where) { query += ' WHERE ' + conditions }` with a where that has
\* no keys leaves a statement that ends in WHERE, which the store rejects.
EmptyWhere(given, where) == given /\ Keys(where) = {}

\* ------------------------------------------------------------------- inputs

\* Primary-key values a caller makes up itself.
KeyInputs(sch) ==
  CASE getFieldType(sch.defs[sch.key[1]]) \in {"uuid", "timeuuid"} ->
         {IdObj("Uuid", 0)}
    [] getFieldType(sch.defs[sch.key[1]]) = "nanoid" -> {Str("nanoid-0")}
    [] OTHER -> {Str("k1"), Str("k2")}

\* Two addresses, and a malformed one where the schema checks the format.
EmailInputs(sch) ==
  IF sch.table = "malformed_test"
  THEN {Str("not-an-email"), Str("test@test.com"), Str("")}
  ELSE {Str("a@x.io"), Str("b@x.io")}
         \cup (IF getValidationRule(sch.defs["email"]).isEmail
               THEN {Str("bad")} ELSE {})

\* The values a caller passes for a field of a record. A caller leaves a
\* generated key to the converter and names a text key itself.
FieldInputs(sch, f) ==
  CASE f \in Range(sch.key) ->
         (IF getFieldType(sch.defs[f]) \in IdTypes THEN {} ELSE KeyInputs(sch))
    [] f = "email" -> EmailInputs(sch)
    [] f = "phone" -> {Str("555")}
    [] f = "name" -> {Str("Ann")}
    [] f = "status" -> {Num(7)}
    [] f = "age" -> {Num(25), Num(-5), Num(200), Str("not-a-number")}
    [] OTHER -> {}

RECURSIVE DataFrom(_, _)
DataFrom(i, sch) ==
  IF i > Len(sch.fields)
  THEN {EmptyObj}
  ELSE {[d EXCEPT ![sch.fields[i]] = v] :
          d \in DataFrom(i + 1, sch),
          v \in {Undef} \cup FieldInputs(sch, sch.fields[i])}

\* The records a caller passes to create and update.
DataInputs(sch) == DataFrom(1, sch)

\* The where maps a caller passes: a primary key it made up or one it read.
WhereInputs(sch, tbl) ==
  {[f \in Names |-> IF f = sch.key[1] THEN v ELSE Undef] :
     v \in KeyInputs(sch) \cup {r[sch.key[1]] : r \in tbl}}

\* The where arguments a caller passes to find, findOne and count: none,
\* an empty map, a primary key, the value of a column, or both.
FindInputs(sch, tbl) ==
  LET byKey == WhereInputs(sch, tbl)
      byEmail == [EmptyObj EXCEPT !["email"] = Str("a@x.io")]
  IN  {[given |-> FALSE, where |-> EmptyObj],
       [given |-> TRUE, where |-> EmptyObj],
       [given |-> TRUE, where |-> byEmail]}
        \cup {[given |-> TRUE, where |-> w] : w \in byKey}
        \cup {[given |-> TRUE, where |-> [w EXCEPT !["email"] = Str("a@x.io")]] :
                w \in byKey}

\* ------------------------------------------------------------------ callers

NoOutcome ==
  [kind |-> "none", name |-> "", msg |-> "", ret |-> EmptyObj, rows |-> <<>>,
   count |-> 0]

\* What a call returned.
Returned(ret) ==
  [kind |-> "ok", name |-> "", msg |-> "", ret |-> ret, rows |-> <<>>,
   count |-> 0]

\* What find returned: `result.rows`.
ReturnedRows(rows) ==
  [kind |-> "ok", name |-> "", msg |-> "", ret |-> EmptyObj, rows |-> rows,
   count |-> 0]

\* What count returned: `parseInt(result.rows[0].count)`.
ReturnedCount(count) ==
  [kind |-> "ok", name |-> "", msg |-> "", ret |-> EmptyObj, rows |-> <<>>,
   count |-> count]

\* The `name` of the error object thrown for a failure of the given kind:
\* `new ValidationError(...)`, `new Error(...)`, or the driver's error.
ErrorName(kind) ==
  CASE kind = "validation" -> "ValidationError"
    [] kind = "unique" -> "Error"
    [] kind = "type" -> "TypeError"
    [] OTHER -> "ResponseError"

\* given tells a where argument that was passed from one that was left out.
NoCall ==
  [op |-> "none", data |-> EmptyObj, where |-> EmptyObj, given |-> FALSE]

\* A step of a call; err is the error of a statement the store failed ("" for
\* a step that went through).
Step(tag, cols, where) ==
  [tag |-> tag, cols |-> cols, where |-> where, err |-> ""]

\* A statement that the store failed with error err.
FailedStep(tag, cols, where, err) ==
  [tag |-> tag, cols |-> cols, where |-> where, err |-> err]

\* The error of the statement that ended a call with the given outcome.
ErrOf(out) == IF out.kind = "store" THEN out.msg ELSE ""

Thrown(kind, msg) ==
  [kind |-> kind, name |-> ErrorName(kind), msg |-> msg, ret |-> EmptyObj,
   rows |-> <<>>, count |-> 0]

\* No direct call of Validator or TypeConverter was made.
NoIn == [fn |-> "none", sch |-> UsersSchema, data |-> EmptyObj,
         isUpdate |-> FALSE, type |-> ""]

\* threw names the error a direct call threw ("" when it returned); text is
\* the string getCassandraType returns.
NoOut ==
  [errors |-> <<>>, calls |-> <<>>, defaults |-> <<>>, ret |-> EmptyObj,
   threw |-> "", text |-> ""]

\* A model loaded with one of the given schemas over an empty table.
\* The client before the first loadSchema call.
ClientFresh ==
  /\ createKeyspace \in BOOLEAN
  /\ connected = FALSE
  /\ models = 0
  /\ constructed = 0
  /\ ddl = <<>>
  /\ lpc = [p \in Procs |-> "idle"]
  /\ lidx = [p \in Procs |-> 0]
  /\ loads = 0
  /\ returned = <<>>

\* The statements of createTable(tableName, sch): the table, then one index
\* for each unique field (schema.indexes is not part of the schemas here).
TableStatements(sch) ==
  <<"CREATE TABLE">> \o
    [i \in 1..Len(getUniqueFields(sch)) |-> "CREATE INDEX"]

\* The client after one loadSchema call has returned: the state the
\* model's operations start from.
ClientLoaded ==
  /\ createKeyspace = TRUE
  /\ connected = TRUE
  /\ models = 1
  /\ constructed = 1
  /\ ddl = <<"CREATE KEYSPACE">> \o TableStatements(schema)
  /\ lpc = [p \in Procs |-> "idle"]
  /\ lidx = [p \in Procs |-> 0]
  /\ loads = 1
  /\ returned = <<1>>

ModelInit(schemas) ==
  /\ schema \in schemas
  /\ table = {}
  /\ nextGen = 0
  /\ pc = [p \in Procs |-> "idle"]
  /\ call = [p \in Procs |-> NoCall]
  /\ uidx = [p \in Procs |-> 0]
  /\ cur = [p \in Procs |-> EmptyObj]
  /\ found = [p \in Procs |-> FALSE]
  /\ outcome = [p \in Procs |-> NoOutcome]
  /\ steps = [p \in Procs |-> <<>>]
  /\ snap = [p \in Procs |-> {}]
  /\ seen = [p \in Procs |-> {}]
  /\ fin = NoIn
  /\ fout = NoOut
  /\ fprev = NoOut
  /\ invoked = 0

InitWith(schemas) == ModelInit(schemas) /\ ClientLoaded

Init == InitWith(Schemas)

\* The calls in flight other than p's learn that a write of `kind` ran.
Noted(p, kind) ==
  [q \in Procs |->
    IF q # p /\ pc[q] \notin {"idle", "done"}
    THEN seen[q] \cup {kind} ELSE seen[q]]

\* A variant of NextIdx that starts one position late.
NextIdxOffByOne(data, i) ==
  LET uf == getUniqueFields(schema)
      present == {j \in (i + 1)..Len(uf) : data[uf[j]] # Undef}
  IN  IF present = {} THEN Len(uf) + 1
      ELSE CHOOSE j \in present : \A m \in present : j <= m

\* The first position at or after i of a unique field present in data:
\* `if (data[field] !== undefined)` in the loop of checkUniqueConstraints.
NextIdx(data, i) ==
  LET uf == getUniqueFields(schema)
      present == {j \in i..Len(uf) : data[uf[j]] # Undef}
  IN  IF present = {} THEN Len(uf) + 1
      ELSE CHOOSE j \in present : \A m \in present : j <= m

\* A variant of PcAt that never enters the loop of checkUniqueConstraints.
PcAtNoCheck(j) == "write"

\* Where a call goes once checkUniqueConstraints reaches position j.
PcAt(j) == IF j <= Len(getUniqueFields(schema)) THEN "unique" ELSE "write"

\* `a !== b`: two objects are the same only if they are one object, and the
\* driver builds a new identifier object for every row it returns; the two
\* operands here come from two result sets.
StrictNe(a, b) == IF a.k = "object" /\ b.k = "object" THEN TRUE ELSE a # b

\* A variant of Collides that forgets that create passes no excludeId.
CollidesOnlyOnUpdate(existing, isNull, excludeId) ==
  ~isNull /\ Truthy(excludeId) /\ StrictNe(existing["id"], excludeId)

\* `existing && (!excludeId || existing.id !== excludeId)`
Collides(existing, isNull, excludeId) ==
  ~isNull /\ (~Truthy(excludeId) \/ StrictNe(existing["id"], excludeId))

\* A variant of CreateStart that writes the record before it validates it.
CreateStartInsertFirst(p, data) ==
  /\ pc[p] = "idle"
  /\ LET errors == validate(data, schema, FALSE)
         j == NextIdx(data, 1)
     IN  IF Len(errors) > 0
         THEN /\ outcome' = [outcome EXCEPT
                   ![p] = Thrown("validation", ValidationMessage(errors))]
              /\ pc' = [pc EXCEPT ![p] = "done"]
              /\ uidx' = uidx
              /\ table' = StoreInsert(table, data, schema)
         ELSE /\ outcome' = [outcome EXCEPT ![p] = NoOutcome]
              /\ pc' = [pc EXCEPT ![p] = PcAt(j)]
              /\ uidx' = [uidx EXCEPT ![p] = j]
              /\ table' = table
  /\ call' = [call EXCEPT
       ![p] = [op |-> "create", data |-> data, where |-> EmptyObj,
               given |-> FALSE]]
  /\ steps' = [steps EXCEPT ![p] = <<Step("validate", data, EmptyObj)>>]
  /\ snap' = [snap EXCEPT ![p] = table]
  /\ seen' = [seen EXCEPT ![p] = {}]
  /\ UNCHANGED <<fin, fout, fprev, invoked>>
  /\ UNCHANGED <<client, schema, nextGen, cur, found>>

\* create(data), up to its first statement.
CreateStart(p, data) ==
  /\ pc[p] = "idle"
  /\ LET errors == validate(data, schema, FALSE)
         j == NextIdx(data, 1)
     IN  IF Len(errors) > 0
         THEN /\ outcome' = [outcome EXCEPT
                   ![p] = Thrown("validation", ValidationMessage(errors))]
              /\ pc' = [pc EXCEPT ![p] = "done"]
              /\ uidx' = uidx
         ELSE /\ outcome' = [outcome EXCEPT ![p] = NoOutcome]
              /\ pc' = [pc EXCEPT ![p] = PcAt(j)]
              /\ uidx' = [uidx EXCEPT ![p] = j]
  /\ call' = [call EXCEPT
       ![p] = [op |-> "create", data |-> data, where |-> EmptyObj,
               given |-> FALSE]]
  /\ steps' = [steps EXCEPT ![p] = <<Step("validate", data, EmptyObj)>>]
  /\ snap' = [snap EXCEPT ![p] = table]
  /\ seen' = [seen EXCEPT ![p] = {}]
  /\ UNCHANGED <<fin, fout, fprev, invoked>>
  /\ UNCHANGED <<client, schema, table, nextGen, cur, found>>

\* update(data, where), up to its first statement.
UpdateStart(p, data, where) ==
  /\ pc[p] = "idle"
  /\ LET errors == validate(data, schema, TRUE)
     IN  IF Len(errors) > 0
         THEN /\ outcome' = [outcome EXCEPT
                   ![p] = Thrown("validation", ValidationMessage(errors))]
              /\ pc' = [pc EXCEPT ![p] = "done"]
         ELSE /\ outcome' = [outcome EXCEPT ![p] = NoOutcome]
              /\ pc' = [pc EXCEPT ![p] = "findOne"]
  /\ call' = [call EXCEPT
       ![p] = [op |-> "update", data |-> data, where |-> where,
               given |-> TRUE]]
  /\ steps' = [steps EXCEPT ![p] = <<Step("validate", data, EmptyObj)>>]
  /\ snap' = [snap EXCEPT ![p] = table]
  /\ seen' = [seen EXCEPT ![p] = {}]
  /\ UNCHANGED <<fin, fout, fprev, invoked>>
  /\ UNCHANGED <<client, schema, table, nextGen, uidx, cur, found>>

\* update's `currentRecord = await this.findOne(where)`.
FindOne(p) ==
  /\ pc[p] = "findOne"
  /\ LET hit == Matching(table, call[p].where)
         j == NextIdx(call[p].data, 1)
     IN  \E row \in (IF hit = {} THEN {EmptyObj} ELSE hit) :
           /\ found' = [found EXCEPT ![p] = hit # {}]
           /\ cur' = [cur EXCEPT ![p] = row]
           /\ pc' = [pc EXCEPT ![p] = IF hit # {} THEN PcAt(j) ELSE "write"]
           /\ uidx' = [uidx EXCEPT ![p] = j]
           /\ steps' = [steps EXCEPT
                ![p] = Append(@, Step("select", row, call[p].where))]
  /\ UNCHANGED <<fin, fout, fprev, invoked>>
  /\ UNCHANGED <<client, schema, table, nextGen, call, outcome, snap, seen>>

\* The excludeId argument of checkUniqueConstraints: none in create,
\* currentRecord.id in update.
ExcludeId(p) == IF call[p].op = "update" THEN cur[p]["id"] ELSE Undef

\* One turn of the loop of checkUniqueConstraints: findByUniqueField and the
\* test of its result.
UniqueLookup(p) ==
  /\ pc[p] = "unique"
  /\ LET field == getUniqueFields(schema)[uidx[p]]
         value == call[p].data[field]
         lookup == [EmptyObj EXCEPT ![field] = value]
         hit == Matching(table, lookup)
         j == NextIdx(call[p].data, uidx[p] + 1)
     IN  \E existing \in (IF hit = {} THEN {EmptyObj} ELSE hit) :
           /\ IF Collides(existing, hit = {}, ExcludeId(p))
              THEN /\ outcome' = [outcome EXCEPT
                        ![p] = Thrown("unique", UniqueMessage(field, value))]
                   /\ pc' = [pc EXCEPT ![p] = "done"]
                   /\ uidx' = uidx
              ELSE /\ outcome' = outcome
                   /\ pc' = [pc EXCEPT ![p] = PcAt(j)]
                   /\ uidx' = [uidx EXCEPT ![p] = j]
           /\ steps' = [steps EXCEPT
                ![p] = Append(@, Step("lookup", existing, lookup))]
  /\ UNCHANGED <<fin, fout, fprev, invoked>>
  /\ UNCHANGED <<client, schema, table, nextGen, call, cur, found, snap, seen>>

\* create, from convertObject to its return.
InsertExec(p) ==
  /\ pc[p] = "write"
  /\ call[p].op = "create"
  /\ LET data == call[p].data
         gen == Generates(data, schema)
         converted == convertObject(data, schema, nextGen + 1)
     IN  /\ gen => nextGen < MaxGen
         /\ nextGen' = IF gen THEN nextGen + 1 ELSE nextGen
         /\ invoked' = invoked + Len(InvokedFields(data, schema))
         /\ IF ConvertThrows(data, schema)
            THEN /\ table' = table
                 /\ outcome' = [outcome EXCEPT
                      ![p] = Thrown("type", "reading 'type' of undefined")]
                 /\ seen' = seen
            ELSE IF KeyMissing(converted, schema)
            THEN /\ table' = table
                 /\ outcome' = [outcome EXCEPT
                      ![p] = Thrown("store", "missing primary key")]
                 /\ seen' = seen
            ELSE IF NaN \in {converted[f] : f \in Names}
            THEN \* what the driver makes of NaN in an int column is open:
                 \* it rejects the statement or stores the row
                 \/ /\ table' = table
                    /\ outcome' = [outcome EXCEPT
                         ![p] = Thrown("store", "invalid value")]
                    /\ seen' = seen
                 \/ /\ table' = StoreInsert(table, converted, schema)
                    /\ outcome' = [outcome EXCEPT ![p] = Returned(converted)]
                    /\ seen' = Noted(p, "insert")
            ELSE /\ table' = StoreInsert(table, converted, schema)
                 /\ outcome' = [outcome EXCEPT
                      ![p] = Returned(converted)]
                 /\ seen' = Noted(p,
                      IF \E r \in table :
                           KeyOf(r, schema) = KeyOf(converted, schema)
                      THEN "overwrite" ELSE "insert")
         /\ steps' = [steps EXCEPT
              ![p] = IF ConvertThrows(data, schema) THEN @
                     ELSE @ \o <<Step("convert", converted, EmptyObj),
                                 FailedStep("insert", converted, EmptyObj,
                                            ErrOf(outcome'[p]))>>]
  /\ pc' = [pc EXCEPT ![p] = "done"]
  /\ UNCHANGED <<fin, fout, fprev>>
  /\ UNCHANGED <<client, schema, call, uidx, cur, found, snap>>

\* A variant of UpdateData that keeps the primary-key fields.
UpdateDataKeepKey(converted, sch) == converted

\* The update set: the converted record without the primary-key fields.
UpdateData(converted, sch) ==
  [f \in Names |-> IF f \in Range(sch.key) THEN Undef ELSE converted[f]]

\* update, from convertObject to its return.
UpdateExec(p) ==
  /\ pc[p] = "write"
  /\ call[p].op = "update"
  /\ LET data == call[p].data
         where == call[p].where
         gen == Generates(data, schema)
         converted == convertObject(data, schema, nextGen + 1)
         updateData == UpdateData(converted, schema)
     IN  /\ gen => nextGen < MaxGen
         /\ nextGen' = IF gen THEN nextGen + 1 ELSE nextGen
         /\ invoked' = invoked + Len(InvokedFields(data, schema))
         /\ IF ConvertThrows(data, schema)
            THEN /\ table' = table
                 /\ outcome' = [outcome EXCEPT
                      ![p] = Thrown("type", "reading 'type' of undefined")]
                 /\ seen' = seen
            ELSE IF Keys(updateData) = {}
            THEN \* `SET  WHERE ...` is no statement of the store
                 /\ table' = table
                 /\ outcome' = [outcome EXCEPT
                      ![p] = Thrown("store", "syntax error")]
                 /\ seen' = seen
            ELSE /\ table' = StoreUpdate(table, updateData, where, schema)
                 /\ outcome' = [outcome EXCEPT
                      ![p] = Returned(EmptyObj)]
                 /\ seen' = Noted(p, "update")
         /\ steps' = [steps EXCEPT
              ![p] = IF ConvertThrows(data, schema) THEN @
                     ELSE @ \o <<Step("convert", converted, EmptyObj),
                                 FailedStep("update", updateData, where,
                                            ErrOf(outcome'[p]))>>]
  /\ pc' = [pc EXCEPT ![p] = "done"]
  /\ UNCHANGED <<fin, fout, fprev>>
  /\ UNCHANGED <<client, schema, call, uidx, cur, found, snap>>

\* delete(where)
Delete(p, where) ==
  /\ pc[p] = "idle"
  /\ table' = StoreDelete(table, where)
  /\ call' = [call EXCEPT
       ![p] = [op |-> "delete", data |-> EmptyObj, where |-> where,
               given |-> TRUE]]
  /\ outcome' = [outcome EXCEPT
       ![p] = Returned(EmptyObj)]
  /\ steps' = [steps EXCEPT ![p] = <<Step("delete", EmptyObj, where)>>]
  /\ snap' = [snap EXCEPT ![p] = table]
  /\ seen' = [Noted(p, "delete") EXCEPT ![p] = {}]
  /\ pc' = [pc EXCEPT ![p] = "done"]
  /\ UNCHANGED <<fin, fout, fprev, invoked>>
  /\ UNCHANGED <<client, schema, nextGen, uidx, cur, found>>

\* A variant of Selected that reads a mirror of the table which the model
\* object keeps and no write refreshes.
SelectedStale(p, where) == Matching(snap[p], where)

\* The rows the statement of find selects in the store.
Selected(p, where) == Matching(table, where)

\* find(where)
Find(p, given, where) ==
  /\ pc[p] = "idle"
  /\ IF EmptyWhere(given, where)
     THEN outcome' = [outcome EXCEPT ![p] = Thrown("store", "syntax error")]
     ELSE \E rows \in Orders(Selected(p, where)) :
            outcome' = [outcome EXCEPT ![p] = ReturnedRows(rows)]
  /\ call' = [call EXCEPT
       ![p] = [op |-> "find", data |-> EmptyObj, where |-> where,
               given |-> given]]
  /\ steps' = [steps EXCEPT
       ![p] = <<FailedStep("select", EmptyObj, where, ErrOf(outcome'[p]))>>]
  /\ snap' = [snap EXCEPT ![p] = table]
  /\ seen' = [seen EXCEPT ![p] = {}]
  /\ pc' = [pc EXCEPT ![p] = "done"]
  /\ UNCHANGED <<fin, fout, fprev, invoked>>
  /\ UNCHANGED <<client, schema, table, nextGen, uidx, cur, found>>

\* A variant of FirstOrNull that takes the last row.
LastOrNull(results) ==
  IF Len(results) = 0 THEN EmptyObj ELSE results[Len(results)]

\* `results[0] || null`; the row without columns stands for null.
FirstOrNull(results) == IF Len(results) = 0 THEN EmptyObj ELSE results[1]

\* findOne(where), called by the caller.
FindOneCall(p, where) ==
  /\ pc[p] = "idle"
  /\ IF EmptyWhere(TRUE, where)
     THEN outcome' = [outcome EXCEPT ![p] = Thrown("store", "syntax error")]
     ELSE \E results \in Orders(Selected(p, where)) :
            outcome' = [outcome EXCEPT
              ![p] = [Returned(FirstOrNull(results)) EXCEPT
                        !.rows = results]]
  /\ call' = [call EXCEPT
       ![p] = [op |-> "findOne", data |-> EmptyObj, where |-> where,
               given |-> TRUE]]
  /\ steps' = [steps EXCEPT
       ![p] = <<FailedStep("select", EmptyObj, where, ErrOf(outcome'[p]))>>]
  /\ snap' = [snap EXCEPT ![p] = table]
  /\ seen' = [seen EXCEPT ![p] = {}]
  /\ pc' = [pc EXCEPT ![p] = "done"]
  /\ UNCHANGED <<fin, fout, fprev, invoked>>
  /\ UNCHANGED <<client, schema, table, nextGen, uidx, cur, found>>

\* A variant of CountOf that counts every row of the table.
CountOfAll(tbl, where) == Cardinality(tbl)

\* The scalar of `SELECT COUNT(*) as count ... WHERE where`.
CountOf(tbl, where) == Cardinality(Matching(tbl, where))

\* count(where)
Count(p, given, where) ==
  /\ pc[p] = "idle"
  /\ outcome' = [outcome EXCEPT
       ![p] = IF EmptyWhere(given, where)
              THEN Thrown("store", "syntax error")
              ELSE ReturnedCount(CountOf(table, where))]
  /\ call' = [call EXCEPT
       ![p] = [op |-> "count", data |-> EmptyObj, where |-> where,
               given |-> given]]
  /\ steps' = [steps EXCEPT
       ![p] = <<FailedStep("count", EmptyObj, where, ErrOf(outcome'[p]))>>]
  /\ snap' = [snap EXCEPT ![p] = table]
  /\ seen' = [seen EXCEPT ![p] = {}]
  /\ pc' = [pc EXCEPT ![p] = "done"]
  /\ UNCHANGED <<fin, fout, fprev, invoked>>
  /\ UNCHANGED <<client, schema, table, nextGen, uidx, cur, found>>

\* The caller takes the result; it may call again.
Return(p) ==
  /\ pc[p] = "done"
  /\ pc' = [pc EXCEPT ![p] = "idle"]
  /\ call' = [call EXCEPT ![p] = NoCall]
  /\ uidx' = [uidx EXCEPT ![p] = 0]
  /\ cur' = [cur EXCEPT ![p] = EmptyObj]
  /\ found' = [found EXCEPT ![p] = FALSE]
  /\ outcome' = [outcome EXCEPT ![p] = NoOutcome]
  /\ steps' = [steps EXCEPT ![p] = <<>>]
  /\ snap' = [snap EXCEPT ![p] = {}]
  /\ seen' = [seen EXCEPT ![p] = {}]
  /\ UNCHANGED <<fin, fout, fprev, invoked>>
  /\ UNCHANGED <<client, schema, table, nextGen>>

\* One step of caller p.
Act(p) ==
  \/ \E data \in DataInputs(schema) : CreateStart(p, data)
  \/ \E data \in DataInputs(schema) \ {EmptyObj} :
       \E where \in WhereInputs(schema, table) : UpdateStart(p, data, where)
  \/ FindOne(p)
  \/ UniqueLookup(p)
  \/ InsertExec(p)
  \/ UpdateExec(p)
  \/ \E where \in WhereInputs(schema, table) : Delete(p, where)
  \/ \E w \in FindInputs(schema, table) : Find(p, w.given, w.where)
  \/ \E w \in FindInputs(schema, table) : w.given /\ FindOneCall(p, w.where)
  \/ \E w \in FindInputs(schema, table) : Count(p, w.given, w.where)
  \/ Return(p)

\* Callers overlap freely: every await is a point where another call runs.
Next == \E p \in Procs : Act(p)

Spec == Init /\ [][Next]_vars

\* Calls do not overlap: one caller makes one call after the other.
SeqNext == \E p \in Procs : (\A q \in Procs : p <= q) /\ Act(p)

SeqSpec == Init /\ [][SeqNext]_vars

\* Overlapping creates: the callers run create and nothing else.
RaceNext ==
  \E p \in Procs :
    \/ \E data \in DataInputs(schema) : CreateStart(p, data)
    \/ UniqueLookup(p)
    \/ InsertExec(p)
    \/ Return(p)

RaceSpec == Init /\ [][RaceNext]_vars

\* ------------------------------------------------------------- direct calls

\* Validator.validate and TypeConverter.convertObject are exported: a caller
\* may apply them to a record without a model or a store.

\* The values a caller passes for the field under a rule.
ValueInputs ==
  {Undef, Null, Str(""), Str("ab"), Str("abcd"), Str("a@b.co"),
   Str("http://x.io"), Str("{}"), Str("5"), Str("password1"),
   Num(-1), Num(0), Num(1), Bool(FALSE)}

\* The format checks of a rule: none, each alone, all.
FormatInputs ==
  {[pattern |-> "", isEmail |-> FALSE, isUrl |-> FALSE, isJson |-> FALSE],
   [pattern |-> "^[a-zA-Z\\s]+$", isEmail |-> FALSE, isUrl |-> FALSE,
    isJson |-> FALSE],
   [pattern |-> "", isEmail |-> TRUE, isUrl |-> FALSE, isJson |-> FALSE],
   [pattern |-> "", isEmail |-> FALSE, isUrl |-> TRUE, isJson |-> FALSE],
   [pattern |-> "", isEmail |-> FALSE, isUrl |-> FALSE, isJson |-> TRUE],
   [pattern |-> "^[a-zA-Z\\s]+$", isEmail |-> TRUE, isUrl |-> TRUE,
    isJson |-> TRUE]}

\* The ValidationRules a schema declares for a field.
RuleInputs ==
  {[present |-> TRUE, required |-> required, minLength |-> minLength,
    maxLength |-> maxLength, min |-> min, max |-> max,
    isEmail |-> format.isEmail, pattern |-> format.pattern,
    isUrl |-> format.isUrl, isJson |-> format.isJson, custom |-> custom] :
     required \in BOOLEAN,
     minLength \in {Undef, Num(0), Num(3)},
     maxLength \in {Undef, Num(0), Num(3)},
     min \in {Undef, Num(0)},
     max \in {Undef, Num(0)},
     format \in FormatInputs,
     custom \in {"", "accept", "message", "false", "one", "password"}}

\* A schema of two validated fields: name under the given rule, then a
\* required age within a range.
RuleSchema(rule) ==
  [table |-> "rules",
   fields |-> <<"name", "age">>,
   defs |-> [f \in Names |->
              CASE f = "name" -> Field("text", FALSE, Undef, rule)
                [] f = "age" ->
                     Field("int", FALSE, Undef,
                           Rule(TRUE, Undef, Undef, Num(0), Num(150), FALSE))
                [] OTHER -> Bare("text")],
   key |-> <<"name">>,
   unique |-> <<>>]

RECURSIVE CallsFrom(_, _, _, _)
\* The invocations of custom functions during validate(data, fields,
\* isUpdate), in order.
CallsFrom(i, data, sch, isUpdate) ==
  IF i > Len(sch.fields)
  THEN <<>>
  ELSE LET fieldName == sch.fields[i]
           rule == getValidationRule(sch.defs[fieldName])
           value == data[fieldName]
           here == IF ~rule.present THEN <<>>
                   ELSE IF isUpdate /\ value = Undef THEN <<>>
                   ELSE customCalls(fieldName, value, rule)
       IN  here \o CallsFrom(i + 1, data, sch, isUpdate)

\* Validator.validate(data, fields, isUpdate), called directly.
ValidateApply ==
  /\ fin.fn = "none"
  /\ \E rule \in RuleInputs, value \in ValueInputs,
        age \in {Undef, Num(-5)}, isUpdate \in BOOLEAN :
       LET sch == RuleSchema(rule)
           data == [EmptyObj EXCEPT !["name"] = value, !["age"] = age]
       IN  /\ fin' = [fn |-> "validate", sch |-> sch, data |-> data,
                      isUpdate |-> isUpdate, type |-> ""]
           /\ fout' = [NoOut EXCEPT
                        !.errors = validate(data, sch, isUpdate),
                        !.calls = CallsFrom(1, data, sch, isUpdate)]
  /\ UNCHANGED <<client, schema, table, nextGen, pc, call, uidx, cur, found, outcome,
                 steps, snap, seen, fprev, invoked>>

\* A schema whose fields carry defaults: an identifier, a text, an int, a
\* boolean and a timestamp field, the last with `default: () => new Date()`.
DefaultsSchema(idType, idDefault, withDefaults) ==
  [table |-> "defaults",
   fields |-> <<"id", "status", "age", "active", "created_at">>,
   defs |-> [f \in Names |->
              CASE f = "id" -> Field(idType, FALSE, idDefault, NoRule)
                [] f = "status" ->
                     (IF withDefaults
                      THEN Field("text", FALSE, Str("new"), NoRule)
                      ELSE Bare("text"))
                [] f = "age" ->
                     (IF withDefaults
                      THEN Field("int", FALSE, Num(18), NoRule)
                      ELSE Bare("int"))
                [] f = "active" ->
                     (IF withDefaults
                      THEN Field("boolean", FALSE, Bool(TRUE), NoRule)
                      ELSE Bare("boolean"))
                [] f = "created_at" ->
                     (IF withDefaults
                      THEN Field("timestamp", FALSE, Fn("now"), NoRule)
                      ELSE Bare("timestamp"))
                [] OTHER -> Bare("text")],
   key |-> <<"id">>,
   unique |-> <<>>]

\* The result of convertObject(data, fields) and the invocations of
\* function-valued defaults it made.
ConvertObjectResult(data, sch) ==
  IF ConvertThrows(data, sch)
  THEN [NoOut EXCEPT !.threw = "TypeError"]
  ELSE [NoOut EXCEPT !.defaults = InvokedFields(data, sch),
                     !.ret = convertObject(data, sch, nextGen + 1)]

\* TypeConverter.convertObject(data, fields), called directly.
ConvertObjectApply ==
  /\ fin.fn = "none"
  /\ \E idType \in {"uuid", "timeuuid", "nanoid"},
        idDefault \in {Undef, Str("fixed-id"), Fn("makeId")},
        withDefaults \in BOOLEAN,
        id \in {Undef, Null, Str(""), Num(0), Bool(FALSE), Str("given")},
        status \in {Undef, Null, Str(""), Str("on")},
        age \in {Undef, Null, Str(""), Num(0), Num(5)},
        active \in {Undef, Null, Bool(FALSE), Bool(TRUE)},
        created_at \in {Undef, Null, IdObj("Date", 0)},
        token \in {Undef, Str("t0k")} :
       LET sch == DefaultsSchema(idType, idDefault, withDefaults)
           data == [EmptyObj EXCEPT !["id"] = id, !["status"] = status,
                                    !["age"] = age, !["active"] = active,
                                    !["created_at"] = created_at,
                                    !["token"] = token]
       IN  /\ fin' = [fn |-> "convertObject", sch |-> sch, data |-> data,
                      isUpdate |-> FALSE, type |-> ""]
           /\ fout' = ConvertObjectResult(data, sch)
           /\ nextGen' = IF Generates(data, sch) THEN nextGen + 1 ELSE nextGen
           /\ invoked' = invoked + Len(InvokedFields(data, sch))
  /\ UNCHANGED <<client, schema, table, pc, call, uidx, cur, found, outcome, steps,
                 snap, seen, fprev>>

\* The caller converts the same record once more.
ConvertObjectAgain ==
  /\ fin.fn = "convertObject"
  /\ fprev = NoOut
  /\ fprev' = fout
  /\ fout' = ConvertObjectResult(fin.data, fin.sch)
  /\ nextGen' = IF Generates(fin.data, fin.sch) THEN nextGen + 1 ELSE nextGen
  /\ invoked' = invoked + Len(InvokedFields(fin.data, fin.sch))
  /\ UNCHANGED <<client, schema, table, pc, call, uidx, cur, found, outcome, steps,
                 snap, seen, fin>>

\* TypeConverter.getCassandraType(type), called directly with a type tag or
\* with a string that is none.
GetCassandraTypeApply ==
  /\ fin.fn = "none"
  /\ \E type \in CassandraTypes \cup {"frozen<text>"} :
       /\ fin' = [NoIn EXCEPT !.fn = "getCassandraType", !.type = type]
       /\ fout' = [NoOut EXCEPT !.text = getCassandraType(type)]
  /\ UNCHANGED <<client, schema, table, nextGen, pc, call, uidx, cur, found, outcome,
                 steps, snap, seen, fprev, invoked>>

DirectNext ==
  \/ ValidateApply
  \/ ConvertObjectApply
  \/ ConvertObjectAgain
  \/ GetCassandraTypeApply

DirectSpec == InitWith({UsersSchema}) /\ [][DirectNext]_vars

\* A valid record with one more key, which the schema does not declare.
UndeclaredInputs ==
  {[EmptyObj EXCEPT !["email"] = Str("test@test.com"), !["age"] = Num(25),
                    !["token"] = Str("t0k")]}

\* Creates on the schema of the malformed-data test, one after the other.
MalformedNext ==
  \E p \in Procs :
    /\ \A q \in Procs : p <= q
    /\ \/ \E data \in DataInputs(schema) \cup UndeclaredInputs :
            CreateStart(p, data)
       \/ InsertExec(p)
       \/ Return(p)

MalformedSpec == InitWith({MalformedSchema}) /\ [][MalformedNext]_vars

\* Creates on a schema whose unique field has a default, one after the
\* other.
DraftsNext ==
  \E p \in Procs :
    /\ \A q \in Procs : p <= q
    /\ \/ \E data \in DataInputs(schema) : CreateStart(p, data)
       \/ UniqueLookup(p)
       \/ InsertExec(p)
       \/ Return(p)

DraftsSpec == InitWith({DraftsSchema}) /\ [][DraftsNext]_vars

\* ---------------------------------------------------------------- loadSchema

MaxLoads == 3

\* loadSchema once connected: `let model = this.models.get(tableName)`; a
\* cached model is returned, otherwise createTable issues its first
\* statement and the call waits for it.
LoadContinue(p) ==
  IF models # 0
  THEN /\ returned' = Append(returned, models)
       /\ lpc' = [lpc EXCEPT ![p] = "idle"]
       /\ UNCHANGED <<ddl, lidx>>
  ELSE /\ ddl' = Append(ddl, TableStatements(schema)[1])
       /\ lidx' = [lidx EXCEPT ![p] = 1]
       /\ lpc' = [lpc EXCEPT ![p] = "createTable"]
       /\ UNCHANGED returned

\* loadSchema(tableName, schema) is called: `if (!this.connected) await
\* this.connect()`, and connect() waits for tempClient.connect().
LoadSchema(p) ==
  /\ lpc[p] = "idle"
  /\ loads < MaxLoads
  /\ loads' = loads + 1
  /\ IF connected
     THEN LoadContinue(p)
     ELSE /\ lpc' = [lpc EXCEPT ![p] = "tempConnect"]
          /\ UNCHANGED <<ddl, lidx, returned>>
  /\ UNCHANGED <<createKeyspace, connected, models, constructed>>
  /\ UNCHANGED <<schema, table, nextGen, pc, call, uidx, cur, found, outcome,
                 steps, snap, seen, fin, fout, fprev, invoked>>

\* tempClient.connect() resolves: createKeyspaceWithClient runs its
\* statement if configured, otherwise tempClient.shutdown() is awaited.
TempConnected(p) ==
  /\ lpc[p] = "tempConnect"
  /\ IF createKeyspace
     THEN /\ ddl' = Append(ddl, "CREATE KEYSPACE")
          /\ lpc' = [lpc EXCEPT ![p] = "createKeyspace"]
     ELSE /\ lpc' = [lpc EXCEPT ![p] = "shutdown"]
          /\ UNCHANGED ddl
  /\ UNCHANGED <<createKeyspace, connected, models, constructed, lidx, loads,
                 returned>>
  /\ UNCHANGED <<schema, table, nextGen, pc, call, uidx, cur, found, outcome,
                 steps, snap, seen, fin, fout, fprev, invoked>>

\* The CREATE KEYSPACE statement resolves: tempClient.shutdown() is awaited.
KeyspaceCreated(p) ==
  /\ lpc[p] = "createKeyspace"
  /\ lpc' = [lpc EXCEPT ![p] = "shutdown"]
  /\ UNCHANGED <<createKeyspace, connected, models, constructed, ddl, lidx,
                 loads, returned>>
  /\ UNCHANGED <<schema, table, nextGen, pc, call, uidx, cur, found, outcome,
                 steps, snap, seen, fin, fout, fprev, invoked>>

\* tempClient.shutdown() resolves: this.client.connect() is awaited.
TempShutdown(p) ==
  /\ lpc[p] = "shutdown"
  /\ lpc' = [lpc EXCEPT ![p] = "clientConnect"]
  /\ UNCHANGED <<createKeyspace, connected, models, constructed, ddl, lidx,
                 loads, returned>>
  /\ UNCHANGED <<schema, table, nextGen, pc, call, uidx, cur, found, outcome,
                 steps, snap, seen, fin, fout, fprev, invoked>>

\* this.client.connect() resolves: `this.connected = true`, and connect()
\* returns to the loadSchema call that awaits it.
ClientConnected(p) ==
  /\ lpc[p] = "clientConnect"
  /\ connected' = TRUE
  /\ lpc' = [lpc EXCEPT ![p] = "connected"]
  /\ UNCHANGED <<createKeyspace, models, constructed, ddl, lidx, loads,
                 returned>>
  /\ UNCHANGED <<schema, table, nextGen, pc, call, uidx, cur, found, outcome,
                 steps, snap, seen, fin, fout, fprev, invoked>>

\* loadSchema resumes after `await this.connect()`.
LoadResume(p) ==
  /\ lpc[p] = "connected"
  /\ LoadContinue(p)
  /\ UNCHANGED <<createKeyspace, connected, models, constructed, loads>>
  /\ UNCHANGED <<schema, table, nextGen, pc, call, uidx, cur, found, outcome,
                 steps, snap, seen, fin, fout, fprev, invoked>>

\* A statement of createTable resolves and createTable issues its next one.
StatementDone(p) ==
  /\ lpc[p] = "createTable"
  /\ lidx[p] < Len(TableStatements(schema))
  /\ ddl' = Append(ddl, TableStatements(schema)[lidx[p] + 1])
  /\ lidx' = [lidx EXCEPT ![p] = lidx[p] + 1]
  /\ UNCHANGED <<createKeyspace, connected, models, constructed, lpc, loads,
                 returned>>
  /\ UNCHANGED <<schema, table, nextGen, pc, call, uidx, cur, found, outcome,
                 steps, snap, seen, fin, fout, fprev, invoked>>

\* The last statement of createTable resolves: `model = new
\* CassandraModel(...)`, `this.models.set(tableName, model)`, and the call
\* returns that model.
TableCreated(p) ==
  /\ lpc[p] = "createTable"
  /\ lidx[p] = Len(TableStatements(schema))
  /\ constructed' = constructed + 1
  /\ models' = constructed + 1
  /\ returned' = Append(returned, constructed + 1)
  /\ lpc' = [lpc EXCEPT ![p] = "idle"]
  /\ lidx' = [lidx EXCEPT ![p] = 0]
  /\ UNCHANGED <<createKeyspace, connected, ddl, loads>>
  /\ UNCHANGED <<schema, table, nextGen, pc, call, uidx, cur, found, outcome,
                 steps, snap, seen, fin, fout, fprev, invoked>>

LoadAct(p) ==
  \/ LoadSchema(p)
  \/ TempConnected(p)
  \/ KeyspaceCreated(p)
  \/ TempShutdown(p)
  \/ ClientConnected(p)
  \/ LoadResume(p)
  \/ StatementDone(p)
  \/ TableCreated(p)

LoadNext == \E p \in Procs : LoadAct(p)

\* Overlapping loadSchema calls of one client for one table name.
LoadInit == ModelInit(Schemas) /\ ClientFresh

LoadSpec == LoadInit /\ [][LoadNext]_vars

\* ------------------------------------------------------------ failing store

\* The store may fail any statement: execute rejects with an error of the
\* driver.
StoreErrors == {"timeout", "unavailable"}

\* A variant of Propagated that wraps the error of the store in a new one.
PropagatedWrapped(err) == Thrown("store", "Query failed: " \o err)

\* An `await this.client.execute(...)` outside any try block rejects: the
\* call rejects with the error of the store.
Propagated(err) == Thrown("store", err)

\* The lookup of the unique field the loop of checkUniqueConstraints is at.
LookupAt(p) ==
  LET field == getUniqueFields(schema)[uidx[p]]
  IN  [EmptyObj EXCEPT ![field] = call[p].data[field]]

\* update's findOne: the SELECT of find fails.
FindOneFails(p, err) ==
  /\ pc[p] = "findOne"
  /\ outcome' = [outcome EXCEPT ![p] = Propagated(err)]
  /\ steps' = [steps EXCEPT
       ![p] = Append(@, FailedStep("select", EmptyObj, call[p].where, err))]
  /\ pc' = [pc EXCEPT ![p] = "done"]
  /\ UNCHANGED <<fin, fout, fprev, invoked>>
  /\ UNCHANGED <<client, schema, table, nextGen, call, uidx, cur, found, snap, seen>>

\* findByUniqueField: the first query fails and the catch block takes over.
LookupFails(p, err) ==
  /\ pc[p] = "unique"
  /\ steps' = [steps EXCEPT
       ![p] = Append(@, FailedStep("lookup", EmptyObj, LookupAt(p), err))]
  /\ pc' = [pc EXCEPT ![p] = "fallback"]
  /\ UNCHANGED <<fin, fout, fprev, invoked>>
  /\ UNCHANGED <<client, schema, table, nextGen, call, uidx, cur, found, outcome,
                 snap, seen>>

\* A variant of FallbackAnswer that finds no row.
FallbackAnswerNone(hit) == {EmptyObj}

\* `result.rows[0] || null` of the ALLOW FILTERING query, whose rows are
\* hit; the row without columns stands for null.
FallbackAnswer(hit) == IF hit = {} THEN {EmptyObj} ELSE hit

\* findByUniqueField: the query of the catch block, and the test of its
\* result in checkUniqueConstraints.
FallbackLookup(p) ==
  /\ pc[p] = "fallback"
  /\ LET field == getUniqueFields(schema)[uidx[p]]
         value == call[p].data[field]
         hit == Matching(table, LookupAt(p))
         j == NextIdx(call[p].data, uidx[p] + 1)
     IN  \E existing \in FallbackAnswer(hit) :
           /\ IF Collides(existing, existing = EmptyObj, ExcludeId(p))
              THEN /\ outcome' = [outcome EXCEPT
                        ![p] = Thrown("unique", UniqueMessage(field, value))]
                   /\ pc' = [pc EXCEPT ![p] = "done"]
                   /\ uidx' = uidx
              ELSE /\ outcome' = outcome
                   /\ pc' = [pc EXCEPT ![p] = PcAt(j)]
                   /\ uidx' = [uidx EXCEPT ![p] = j]
           /\ steps' = [steps EXCEPT
                ![p] = Append(@, Step("fallback", existing, LookupAt(p)))]
  /\ UNCHANGED <<fin, fout, fprev, invoked>>
  /\ UNCHANGED <<client, schema, table, nextGen, call, cur, found, snap, seen>>

\* findByUniqueField: the query of the catch block fails too.
FallbackFails(p, err) ==
  /\ pc[p] = "fallback"
  /\ outcome' = [outcome EXCEPT ![p] = Propagated(err)]
  /\ steps' = [steps EXCEPT
       ![p] = Append(@, FailedStep("fallback", EmptyObj, LookupAt(p), err))]
  /\ pc' = [pc EXCEPT ![p] = "done"]
  /\ UNCHANGED <<fin, fout, fprev, invoked>>
  /\ UNCHANGED <<client, schema, table, nextGen, call, uidx, cur, found, snap, seen>>

\* create: the INSERT fails.
InsertFails(p, err) ==
  /\ pc[p] = "write"
  /\ call[p].op = "create"
  /\ LET data == call[p].data
         gen == Generates(data, schema)
         converted == convertObject(data, schema, nextGen + 1)
     IN  /\ gen => nextGen < MaxGen
         /\ nextGen' = IF gen THEN nextGen + 1 ELSE nextGen
         /\ invoked' = invoked + Len(InvokedFields(data, schema))
         /\ steps' = [steps EXCEPT
              ![p] = @ \o <<Step("convert", converted, EmptyObj),
                            FailedStep("insert", converted, EmptyObj, err)>>]
  /\ outcome' = [outcome EXCEPT ![p] = Propagated(err)]
  /\ pc' = [pc EXCEPT ![p] = "done"]
  /\ UNCHANGED <<fin, fout, fprev>>
  /\ UNCHANGED <<client, schema, table, call, uidx, cur, found, snap, seen>>

\* update: the UPDATE fails.
UpdateFails(p, err) ==
  /\ pc[p] = "write"
  /\ call[p].op = "update"
  /\ LET data == call[p].data
         gen == Generates(data, schema)
         converted == convertObject(data, schema, nextGen + 1)
         updateData == UpdateData(converted, schema)
     IN  /\ gen => nextGen < MaxGen
         /\ nextGen' = IF gen THEN nextGen + 1 ELSE nextGen
         /\ invoked' = invoked + Len(InvokedFields(data, schema))
         /\ steps' = [steps EXCEPT
              ![p] = @ \o <<Step("convert", converted, EmptyObj),
                            FailedStep("update", updateData, call[p].where,
                                       err)>>]
  /\ outcome' = [outcome EXCEPT ![p] = Propagated(err)]
  /\ pc' = [pc EXCEPT ![p] = "done"]
  /\ UNCHANGED <<fin, fout, fprev>>
  /\ UNCHANGED <<client, schema, table, call, uidx, cur, found, snap, seen>>

\* The tag of the one statement of find, findOne, delete and count.
StatementOf(op) ==
  CASE op \in {"find", "findOne"} -> "select"
    [] op = "count" -> "count"
    [] OTHER -> "delete"

\* find, findOne, delete or count: the one statement of the call fails.
StatementFails(p, op, given, where, err) ==
  /\ pc[p] = "idle"
  /\ call' = [call EXCEPT
       ![p] = [op |-> op, data |-> EmptyObj, where |-> where,
               given |-> given]]
  /\ outcome' = [outcome EXCEPT ![p] = Propagated(err)]
  /\ steps' = [steps EXCEPT
       ![p] = <<FailedStep(StatementOf(op), EmptyObj, where, err)>>]
  /\ snap' = [snap EXCEPT ![p] = table]
  /\ seen' = [seen EXCEPT ![p] = {}]
  /\ pc' = [pc EXCEPT ![p] = "done"]
  /\ UNCHANGED <<fin, fout, fprev, invoked>>
  /\ UNCHANGED <<client, schema, table, nextGen, uidx, cur, found>>

\* One step of caller p against a store that may fail.
FaultAct(p) ==
  \/ Act(p)
  \/ \E err \in StoreErrors :
       \/ FindOneFails(p, err)
       \/ LookupFails(p, err)
       \/ FallbackFails(p, err)
       \/ InsertFails(p, err)
       \/ UpdateFails(p, err)
       \/ \E op \in {"find", "findOne", "delete", "count"},
             w \in FindInputs(schema, table) :
            /\ (op \in {"findOne", "delete"} => w.given)
            /\ StatementFails(p, op, w.given, w.where, err)
  \/ FallbackLookup(p)

\* One caller, one call after the other, against a store that may fail.
FaultNext == \E p \in Procs : (\A q \in Procs : p <= q) /\ FaultAct(p)

FaultSpec == Init /\ [][FaultNext]_vars

\* ------------------------------------------------------------- observations

CreateDone(p) == pc[p] = "done" /\ call[p].op = "create"

UpdateDone(p) == pc[p] = "done" /\ call[p].op = "update"

\* The input of p's call passes the validation of its mode.
Valid(p) == Len(validate(call[p].data, schema, call[p].op = "update")) = 0

HasStep(p, tag) == \E i \in 1..Len(steps[p]) : steps[p][i].tag = tag

\* The unique fields the input of p's call gives a value.
PresentUnique(p) ==
  {f \in Range(getUniqueFields(schema)) : call[p].data[f] # Undef}

\* A row of tbl holds value v in column f.
Held(tbl, f, v) == \E r \in tbl : r[f] = v

\* The input of p's call repeats, in unique field f, a value stored when the
\* call started.
Repeats(p, f) ==
  f \in PresentUnique(p) /\ Held(snap[p], f, call[p].data[f])

\* p's call ended in the uniqueness error of one of the fields in fs and
\* wrote nothing.
RejectedAsDuplicate(p, fs) ==
  /\ outcome[p].kind = "unique"
  /\ \E f \in fs : outcome[p].msg = f \o " '" \o call[p].data[f].s
                                      \o "' already exists"
  /\ ~HasStep(p, "insert")
  /\ ~HasStep(p, "update")

\* --------------------------------------------------------------------- C1

\* C1 as stated: without concurrent calls, a create whose input gives a
\* unique field a value some stored row holds fails with
\* "<field> '<value>' already exists" and inserts nothing.
C1_AnyDuplicateCreateRejected ==
  \A p \in Procs :
    (CreateDone(p) /\ \E f \in Names : Repeats(p, f))
      => /\ RejectedAsDuplicate(p, {f \in Names : Repeats(p, f)})
         /\ table = snap[p]

\* C1, amended: without concurrent calls, a create whose input passes
\* validation and gives a unique field a value some stored row holds fails
\* with "<field> '<value>' already exists" for such a field and inserts
\* nothing.
C1_ValidDuplicateCreateRejected ==
  \A p \in Procs :
    (CreateDone(p) /\ Valid(p) /\ \E f \in Names : Repeats(p, f))
      => /\ RejectedAsDuplicate(p, {f \in Names : Repeats(p, f)})
         /\ table = snap[p]

C1_Witness ==
  \E p \in Procs :
    /\ CreateDone(p) /\ Valid(p)
    /\ \E f \in Names : Repeats(p, f)
    /\ outcome[p].kind = "unique"
    /\ HasStep(p, "lookup")

\* --------------------------------------------------------------------- C2

\* The rows where does not identify hold, in unique field f, the value the
\* input of p's update gives f.
HeldByOther(p, f) ==
  /\ f \in PresentUnique(p)
  /\ Held(snap[p] \ Matching(snap[p], call[p].where), f, call[p].data[f])

C3_OwnValuesAccepted ==
  \A p \in Procs :
    (/\ UpdateDone(p) /\ Valid(p)
     /\ Matching(snap[p], call[p].where) = {cur[p]}
     /\ PresentUnique(p) # {}
     /\ \A f \in PresentUnique(p) :
          /\ cur[p][f] = call[p].data[f]
          /\ ~Held(snap[p] \ {cur[p]}, f, call[p].data[f]))
      => outcome[p].kind # "unique"

\* --------------------------------------------------------------------- C4

\* Callers p and q each ran a create that gave unique field f the same
\* value, found no row in the lookup of f, and did not name the same
\* primary key; the two calls overlapped (the insert of one ran while the
\* other was in flight).
Raced(p, q, f) ==
  /\ p # q
  /\ CreateDone(p) /\ CreateDone(q)
  /\ seen[p] \cup seen[q] # {}
  /\ outcome[p].kind = "ok" /\ outcome[q].kind = "ok"
  /\ f \in PresentUnique(p)
  /\ call[p].data[f] = call[q].data[f]
  /\ \A r \in {p, q} :
       \E i \in 1..Len(steps[r]) :
         /\ steps[r][i].tag = "lookup"
         /\ steps[r][i].where[f] = call[r].data[f]
         /\ steps[r][i].cols = EmptyObj
  /\ \A k \in Range(schema.key) :
       \/ call[p].data[k] # call[q].data[k]
       \/ /\ call[p].data[k] = Undef
          /\ getFieldType(schema.defs[k]) \in IdTypes

\* C4: when two creates with the same value of a unique field overlap so
\* that both lookups return no row, both inserts execute and two stored
\* rows hold the value.
C4_RaceLeavesTwoRows ==
  \A p, q \in Procs : \A f \in Names :
    Raced(p, q, f)
      => /\ HasStep(p, "insert") /\ HasStep(q, "insert")
         /\ Cardinality({r \in table : r[f] = call[p].data[f]}) >= 2

C4_Witness ==
  \E p, q \in Procs : \E f \in Names :
    /\ Raced(p, q, f)
    /\ Cardinality({r \in table : r[f] = call[p].data[f]}) = 2

\* --------------------------------------------------------------------- C5

\* C5 as stated: a create that starts after a create with the same value of
\* a unique field completed fails with the uniqueness error and inserts
\* nothing, however the creates that follow interleave.
C5_LaterCreateRejected ==
  \A p \in Procs :
    (CreateDone(p) /\ \E f \in Names : Repeats(p, f))
      => outcome[p].kind = "unique" /\ ~HasStep(p, "insert")

\* C5, amended: a create whose input passes validation and that starts
\* after a create with the same value of a unique field completed fails
\* with the uniqueness error and inserts nothing, however the creates that
\* follow interleave, provided no create overwrites a stored row in between.
C5_LaterValidCreateRejected ==
  \A p \in Procs :
    (/\ CreateDone(p) /\ Valid(p)
     /\ "overwrite" \notin seen[p]
     /\ \E f \in Names : Repeats(p, f))
      => RejectedAsDuplicate(p, PresentUnique(p))

C5_Witness ==
  \E p, q \in Procs : \E f \in Names :
    /\ p # q
    /\ CreateDone(p) /\ Valid(p) /\ Repeats(p, f)
    /\ "overwrite" \notin seen[p]
    /\ outcome[p].kind = "unique"
    /\ call[q].op = "create" /\ pc[q] \in {"unique", "write"}
    /\ call[q].data[f] = call[p].data[f]
    /\ Held(snap[q], f, call[q].data[f])

\* --------------------------------------------------------------------- C6

\* C6: a create or update that fails with a validation error or a
\* uniqueness error executed no insert and no update, and leaves the table
\* as it was before the call.
C6_NoPartialWrites ==
  \A p \in Procs :
    (/\ pc[p] = "done"
     /\ call[p].op \in {"create", "update"}
     /\ outcome[p].kind \in {"validation", "unique"})
      => /\ ~HasStep(p, "insert")
         /\ ~HasStep(p, "update")
         /\ table = snap[p]

C6_Witness ==
  \E p \in Procs :
    /\ CreateDone(p)
    /\ outcome[p].kind = "validation"
    /\ snap[p] # {}
    /\ table = snap[p]

\* --------------------------------------------------------------------- C7

\* The place of a step in the order of a call.
Rank(tag) ==
  CASE tag = "validate" -> 0
    [] tag = "select" -> 1
    [] tag = "lookup" -> 2
    [] tag = "convert" -> 3
    [] OTHER -> 4

\* C7: within one create or update the steps run in the order validate,
\* uniqueness lookups, conversion, write: no statement reaches the store
\* unless validation returned no violation, and the write runs only after
\* the lookup of every unique field of the input returned without a
\* collision.
C7_StepsInOrder ==
  \A p \in Procs :
    call[p].op \in {"create", "update"} =>
      LET s == steps[p]
          n == Len(s)
      IN  /\ n >= 1 /\ s[1].tag = "validate"
          /\ n >= 2 => Valid(p)
          /\ \A i, j \in 1..n :
               i < j => /\ Rank(s[i].tag) <= Rank(s[j].tag)
                        /\ s[i].tag # "lookup" => s[i].tag # s[j].tag
          /\ \A j \in 1..n :
               s[j].tag \in {"insert", "update"} =>
                 /\ s[j - 1].tag = "convert"
                 /\ \A i \in 1..j :
                      s[i].tag = "lookup" =>
                        ~Collides(s[i].cols, s[i].cols = EmptyObj,
                                  ExcludeId(p))
                 /\ (call[p].op = "create" \/ found[p]) =>
                      PresentUnique(p) =
                        UNION {Keys(s[i].where) :
                                 i \in {k \in 1..j : s[k].tag = "lookup"}}

C7_Witness ==
  \E p \in Procs :
    /\ UpdateDone(p)
    /\ outcome[p].kind = "ok"
    /\ HasStep(p, "select") /\ HasStep(p, "lookup") /\ HasStep(p, "update")

\* --------------------------------------------------------------------- C8

\* The fields convertObject fills in when the input leaves them out.
FilledIn(sch) ==
  {f \in Range(sch.fields) :
     \/ getFieldType(sch.defs[f]) \in IdTypes
     \/ ~sch.defs[f].bare /\ sch.defs[f].default # Undef}

\* C8: a create that succeeds returns the converted record (every input
\* field converted to its declared type, every identifier the input leaves
\* out generated, every default the input leaves out applied) and the row
\* it inserts has the same columns and values.
C8_ReturnsWhatItInserts ==
  \A p \in Procs :
    (CreateDone(p) /\ outcome[p].kind = "ok") =>
      LET data == call[p].data
          ret == outcome[p].ret
      IN  /\ \E i \in 1..Len(steps[p]) :
               steps[p][i].tag = "insert" /\ steps[p][i].cols = ret
          /\ Keys(ret) = Keys(data) \cup FilledIn(schema)
          /\ \A f \in Keys(data) :
               ret[f] = IF getFieldType(schema.defs[f]) \in IdTypes
                        THEN data[f]
                        ELSE [k |-> "string", s |-> ToStr(data[f]), n |-> 0]
          /\ \A f \in FilledIn(schema) \ Keys(data) :
               IF getFieldType(schema.defs[f]) \in IdTypes
               THEN ~Held(snap[p], f, ret[f])
               ELSE ret[f] = schema.defs[f].default
          /\ \E r \in table : \A f \in Keys(ret) : r[f] = ret[f]
          /\ (\A r \in snap[p] : KeyOf(r, schema) # KeyOf(ret, schema))
               => ret \in table

C8_Witness ==
  \E p \in Procs :
    /\ CreateDone(p) /\ outcome[p].kind = "ok"
    /\ call[p].data["status"] = Undef
    /\ outcome[p].ret["status"] = Str("new")
    /\ call[p].data["id"] = Undef
    /\ outcome[p].ret["id"] # Undef
    /\ outcome[p].ret \in table
    /\ snap[p] # {}

\* --------------------------------------------------------------------- C9

\* C9: an update changes only the columns its data names: every other
\* column of the row where identifies keeps its value.
C9_OnlyNamedColumnsChange ==
  \A p \in Procs :
    (UpdateDone(p) /\ outcome[p].kind = "ok") =>
      \A r \in Matching(snap[p], call[p].where) :
        \E r2 \in table :
          /\ KeyOf(r2, schema) = KeyOf(r, schema)
          /\ \A f \in Names \ Keys(call[p].data) : r2[f] = r[f]

\* -------------------------------------------------------------------- C10

\* C10: the update statement names no primary-key field in its set clauses
\* and its predicate is the caller's where; no update changes the primary
\* key of a stored row.
C10_KeyNeverSet ==
  \A p \in Procs :
    call[p].op = "update" =>
      /\ \A i \in 1..Len(steps[p]) :
           steps[p][i].tag = "update" =>
             /\ Keys(steps[p][i].cols) \cap Range(schema.key) = {}
             /\ steps[p][i].where = call[p].where
      /\ pc[p] = "done" =>
           {KeyOf(r, schema) : r \in snap[p]}
             \subseteq {KeyOf(r, schema) : r \in table}

C10_Witness ==
  \E p \in Procs : \E k \in Range(schema.key) :
    /\ UpdateDone(p) /\ outcome[p].kind = "ok"
    /\ found[p]
    /\ call[p].data[k] # Undef
    /\ call[p].data[k] # call[p].where[k]
    /\ HasStep(p, "update")

\* -------------------------------------------------------------------- C11

\* The violations of field f in p's call: none for a field without rules
\* or, in an update, for a field the data leaves out.
FieldViolations(p, f) ==
  LET rule == getValidationRule(schema.defs[f])
  IN  IF ~rule.present \/ (call[p].op = "update" /\ call[p].data[f] = Undef)
      THEN <<>>
      ELSE validateField(f, call[p].data[f], rule)

RECURSIVE ViolationsFrom(_, _)
\* The violations of the fields from position i on, in declaration order.
ViolationsFrom(p, i) ==
  IF i > Len(schema.fields) THEN <<>>
  ELSE FieldViolations(p, schema.fields[i]) \o ViolationsFrom(p, i + 1)

C12_ErrorNamesTellFailuresApart ==
  \A p \in Procs :
    (pc[p] = "done" /\ call[p].op \in {"create", "update"}) =>
      /\ outcome[p].kind = "validation" => outcome[p].name = "ValidationError"
      /\ outcome[p].kind = "unique" =>
           outcome[p].name = "UniqueConstraintError"

\* ------------------------------------------- observations of direct calls

\* validate was called directly; the field under the drawn rule is name.
Validated == fin.fn = "validate"

TheRule == fin.sch.defs["name"].validate

TheValue == fin.data["name"]

\* The value is absent, null or the empty string.
Blank(value) ==
  value.k \in {"undefined", "null"} \/ (value.k = "string" /\ value.s = "")

\* The violations validate returned for name: all but those of age.
NameErrors ==
  SelectSeq(fout.errors,
            LAMBDA m : ~(Len(m) >= 4 /\ SubSeq(m, 1, 4) = "age "))

\* -------------------------------------------------------------------- C13

\* C13: for a field whose rule set has required, validate on a record
\* where the field is absent, null or the empty string (and, in update
\* mode, not left out) yields exactly one violation for that field,
\* "<field> is required", and evaluates no other rule of that field.
C13_RequiredStopsTheField ==
  (/\ Validated
   /\ TheRule.required
   /\ Blank(TheValue)
   /\ fin.isUpdate => TheValue.k # "undefined")
    => /\ NameErrors = <<"name is required">>
       /\ fout.calls = <<>>

C13_Witness ==
  /\ Validated
  /\ ~fin.isUpdate
  /\ TheRule.required
  /\ TheValue.k = "string" /\ TheValue.s = ""
  /\ TheRule.custom = "message"
  /\ TheRule.minLength.n = 3
  /\ TheRule.isEmail /\ TheRule.isUrl /\ TheRule.isJson
  /\ NameErrors = <<"name is required">>

\* -------------------------------------------------------------------- C14

\* C14: validate in update mode skips every declared field whose value is
\* absent, so it never reports "is required" for an omitted field; a
\* required field supplied as null or the empty string still yields
\* "<field> is required"; every supplied field is checked with the same
\* rules as in create mode.
C14_UpdateModeSkipsOmitted ==
  (Validated /\ fin.isUpdate) =>
    LET omitted == {f \in Range(fin.sch.fields) : fin.data[f].k = "undefined"}
    IN  /\ \A f \in omitted : (f \o " is required") \notin Range(fout.errors)
        /\ "name" \in omitted => NameErrors = <<>> /\ fout.calls = <<>>
        /\ (TheRule.required /\ Blank(TheValue) /\ "name" \notin omitted)
             => NameErrors = <<"name is required">>
        /\ fout.errors =
             SelectSeq(validate(fin.data, fin.sch, FALSE),
                       LAMBDA m : \A f \in omitted : m # f \o " is required")

C14_Witness ==
  /\ Validated /\ fin.isUpdate
  /\ TheRule.required
  /\ TheValue.k = "undefined"
  /\ fin.data["age"].n = -5
  /\ fout.errors = <<"age must be at least 0">>

\* -------------------------------------------------------------------- C15

\* The length bounds the rules declare.
LengthBounds == {0, 3}

\* C15: for a non-empty string value and every declared bound N, validate
\* reports "<field> must be at least N characters" exactly when minLength =
\* N is declared and the string is shorter than N, and "<field> must be at
\* most N characters" exactly when maxLength = N is declared and the string
\* is longer than N.
C15_LengthBoundsHonoured ==
  (Validated /\ TheValue.k = "string" /\ TheValue.s # "") =>
    \A N \in LengthBounds :
      /\ ("name must be at least " \o ToString(N) \o " characters")
            \in Range(fout.errors)
           <=> (TheRule.minLength.k = "number" /\ TheRule.minLength.n = N
                /\ Len(TheValue.s) < N)
      /\ ("name must be at most " \o ToString(N) \o " characters")
            \in Range(fout.errors)
           <=> (TheRule.maxLength.k = "number" /\ TheRule.maxLength.n = N
                /\ Len(TheValue.s) > N)

\* -------------------------------------------------------------------- C16

\* C16: for a value of numeric type, validate reports "<field> must be at
\* least N" exactly when min = N is declared and value < N, and "<field>
\* must be at most N" exactly when max = N is declared and value > N (a
\* bound of 0 is honoured); a value that is not of numeric type, such as a
\* numeric-looking string, yields no min/max violation.
C16_RangeBoundsHonoured ==
  (Validated /\ ~Blank(TheValue)) =>
    /\ "name must be at least 0" \in Range(fout.errors)
         <=> (/\ TheValue.k = "number"
              /\ TheRule.min.k = "number" /\ TheRule.min.n = 0
              /\ TheValue.n < 0)
    /\ "name must be at most 0" \in Range(fout.errors)
         <=> (/\ TheValue.k = "number"
              /\ TheRule.max.k = "number" /\ TheRule.max.n = 0
              /\ TheValue.n > 0)

C16_Witness ==
  /\ Validated
  /\ TheValue.k = "number" /\ TheValue.n = -1
  /\ TheRule.min.k = "number" /\ TheRule.min.n = 0
  /\ TheRule.max.k = "number" /\ TheRule.max.n = 0
  /\ NameErrors = <<"name must be at least 0">>

\* -------------------------------------------------------------------- C17

\* C17: when a field declares custom and its value is not absent, null or
\* the empty string, validate invokes custom exactly once with the raw
\* value, whether or not earlier checks of the field failed; it appends
\* nothing if and only if the result is literally true, the result itself
\* when it is a string, and "<field> is invalid" otherwise.
C17_CustomRunsOnce ==
  (Validated /\ TheRule.custom # "" /\ ~Blank(TheValue)) =>
    LET result == CustomResult(TheRule.custom, TheValue)
        earlier == validateField("name", TheValue,
                                 [TheRule EXCEPT !.custom = ""])
    IN  /\ fout.calls = <<TheValue>>
        /\ NameErrors =
             earlier \o (IF result.k = "boolean" /\ result.n = 1 THEN <<>>
                         ELSE IF result.k = "string" THEN <<result.s>>
                         ELSE <<"name is invalid">>)

C17_Witness ==
  /\ Validated
  /\ TheRule.custom = "one"
  /\ TheValue.k = "string" /\ TheValue.s = "ab"
  /\ NameErrors = <<"name must be at least 3 characters", "name is invalid">>

\* -------------------------------------------------------------------- C18

\* The five inputs of the malformed-data test.
MalformedInputs ==
  {[EmptyObj EXCEPT !["email"] = Str("not-an-email"), !["age"] = Num(25)],
   [EmptyObj EXCEPT !["email"] = Str("test@test.com"), !["age"] = Num(-5)],
   [EmptyObj EXCEPT !["email"] = Str("test@test.com"), !["age"] = Num(200)],
   [EmptyObj EXCEPT !["email"] = Str(""), !["age"] = Num(25)],
   [EmptyObj EXCEPT !["email"] = Str("test@test.com"),
                    !["age"] = Str("not-a-number")]}

\* C18: for the schema {email: text with isEmail, age: int with min 0 and
\* max 150}, create fails for an email that is not a valid address, an age
\* below 0, an age above 150, an email that is the empty string, and an age
\* that is a non-numeric string.
C18_MalformedInputsRejected ==
  \A p \in Procs :
    (CreateDone(p) /\ call[p].data \in MalformedInputs)
      => outcome[p].kind # "ok"

\* -------------------------------------------------------------------- C19

\* convertObject was called directly and returned.
Converted == fin.fn = "convertObject" /\ fout.threw = ""

\* C19: for every input record, the output of convertObject has a present
\* value for every declared field of type uuid, timeuuid or nanoid: an
\* identifier missing from the input is generated.
C19_IdentifiersAlwaysPresent ==
  Converted =>
    \A f \in Range(fin.sch.fields) :
      fin.sch.defs[f].type \in {"uuid", "timeuuid", "nanoid"} =>
        /\ fout.ret[f].k \in {"object", "string"}
        /\ fout.ret[f].k = "string" => fout.ret[f].s # ""
        /\ fin.data[f].k = "undefined" =>
             fout.ret[f] # fin.sch.defs[f].default

C19_Witness ==
  /\ Converted
  /\ fin.sch.defs["id"].type = "nanoid"
  /\ fin.sch.defs["id"].default.k = "undefined"
  /\ fin.data["id"].k = "undefined"
  /\ fout.ret["id"].k = "string"

\* -------------------------------------------------------------------- C20

\* C20: convertObject applies a field's default only when the field is
\* missing (undefined) after conversion and identifier generation: a value
\* the caller supplied, including null, the empty string, false and 0, is
\* converted and never replaced by the default, and for a missing field of
\* an identifier type the generated identifier takes precedence over the
\* default.
C20_DefaultsOnlyFillMissing ==
  Converted =>
    LET data == fin.data
        ret == fout.ret
        def(f) == fin.sch.defs[f].default
    IN  /\ \A f \in {"status", "age", "active"} :
             data[f].k = "undefined" => ret[f] = def(f)
        /\ data["status"].k # "undefined" =>
             ret["status"].k = "string" /\ ret["status"].s = ToStr(data["status"])
        /\ data["age"].k = "number" => ret["age"] = data["age"]
        /\ data["age"].k \in {"null", "string"} => ret["age"].k = "nan"
        /\ data["active"].k # "undefined" =>
             /\ ret["active"].k = "boolean"
             /\ ret["active"].n = 1 <=> (data["active"].k = "boolean"
                                        /\ data["active"].n = 1)
        /\ IF data["id"].k = "string" /\ data["id"].s # ""
           THEN ret["id"] = data["id"]
           ELSE ret["id"].k \in {"object", "string"} /\ ret["id"] # def("id")

C20_Witness ==
  /\ Converted
  /\ fin.sch.defs["active"].default.k = "boolean"
  /\ fin.sch.defs["id"].default.k = "string"
  /\ fin.data["active"].k = "boolean" /\ fin.data["active"].n = 0
  /\ fin.data["age"].k = "number" /\ fin.data["age"].n = 0
  /\ fin.data["status"].k = "string" /\ fin.data["status"].s = ""
  /\ fin.data["id"].k = "null"
  /\ fout.ret["active"].k = "boolean" /\ fout.ret["active"].n = 0
  /\ fout.ret["age"].k = "number" /\ fout.ret["age"].n = 0
  /\ fout.ret["status"].k = "string" /\ fout.ret["status"].s = ""

\* -------------------------------------------------------------------- C21

\* The declared fields of the converted schema whose default is a function.
FunctionFields ==
  {f \in Range(fin.sch.fields) :
     ~fin.sch.defs[f].bare /\ fin.sch.defs[f].default.k = "function"}

\* How often the latest conversion invoked the default of field f.
Invocations(f) ==
  Cardinality({i \in 1..Len(fout.defaults) : fout.defaults[i] = f})

\* The record was converted twice.
ConvertedTwice == Converted /\ fprev # NoOut

\* C21 as stated: a function-valued default is invoked exactly once in
\* each convertObject call in which its field is missing, and not at all
\* when the field is supplied.
C21_InvokedOnceWheneverMissing ==
  Converted =>
    \A f \in FunctionFields :
      Invocations(f) = IF fin.data[f].k = "undefined" THEN 1 ELSE 0

\* C21, amended: the function-valued default of a field that is not of an
\* identifier type is invoked exactly once in each convertObject call in
\* which the field is missing and not at all when it is supplied; the
\* function-valued default of an identifier field is never invoked; and two
\* conversions of the same input with the field missing receive the
\* results of two different invocations.
C21_InvokedOncePerConversion ==
  Converted =>
    \A f \in FunctionFields :
      LET default == fin.sch.defs[f].default
          missing == fin.data[f].k = "undefined"
      IN  IF fin.sch.defs[f].type \in {"uuid", "timeuuid", "nanoid"}
          THEN Invocations(f) = 0 /\ fout.ret[f].k # "function"
          ELSE /\ Invocations(f) = IF missing THEN 1 ELSE 0
               /\ (missing /\ fprev # NoOut) =>
                    \E i, j \in 1..invoked :
                      /\ i # j
                      /\ fprev.ret[f] = Invoke(default, i)
                      /\ fout.ret[f] = Invoke(default, j)

C21_Witness ==
  /\ ConvertedTwice
  /\ "created_at" \in FunctionFields
  /\ fin.data = EmptyObj
  /\ fprev.defaults = <<"created_at">>
  /\ fout.defaults = <<"created_at">>
  /\ fprev.ret["created_at"] # fout.ret["created_at"]

\* -------------------------------------------------------------------- C22

\* p's call of the given operation returned.
ReturnedFrom(p, op) ==
  pc[p] = "done" /\ call[p].op = op /\ outcome[p].kind = "ok"

\* Row r has the value of where in every column where names.
Satisfies(r, where) ==
  \A f \in Names : where[f].k # "undefined" => r[f] = where[f]

C22_WitnessNull ==
  \E p \in Procs :
    /\ ReturnedFrom(p, "findOne")
    /\ table # {}
    /\ outcome[p].ret = EmptyObj

\* -------------------------------------------------------------------- C23

\* p's delete names a where that identifies exactly one row of the table as
\* it was when the call started.
DeletedOne(p) ==
  /\ pc[p] = "done"
  /\ call[p].op = "delete"
  /\ Cardinality({r \in snap[p] : Satisfies(r, call[p].where)}) = 1

C23_WitnessCount ==
  \E p \in Procs :
    /\ ReturnedFrom(p, "count")
    /\ call[p].given
    /\ outcome[p].count = 1
    /\ Cardinality(table) = 2

\* -------------------------------------------------------------------- C24

\* getCassandraType was called directly.
Typed == fin.fn = "getCassandraType"

\* C24: getCassandraType maps nanoid and json to text and every other type
\* tag of CassandraType to the type of the same name, so nanoid and json
\* share the answer text and uuid gets another.
C24_DdlTypeNames ==
  Typed =>
    /\ fin.type \in {"nanoid", "json"} => fout.text = "text"
    /\ fin.type \in CassandraTypes \ {"nanoid", "json"} =>
         fout.text = fin.type
    /\ fin.type = "uuid" => fout.text # "text"

C24_Witness == Typed /\ fin.type = "json" /\ fout.text = "text"

\* -------------------------------------------------------------------- C25

\* The unique fields of the schema as the claim lists them: the
\* schema-level list, then the fields declared unique that the list does
\* not name.
ListedUnique ==
  schema.unique
    \o SelectSeq(schema.fields,
                 LAMBDA f : /\ ~schema.defs[f].bare
                            /\ schema.defs[f].unique
                            /\ f \notin Range(schema.unique))

\* The fields p's call looked up, in the order of the lookups.
LookedUp(p) ==
  LET lookups == SelectSeq(steps[p], LAMBDA st : st.tag = "lookup")
  IN  [i \in 1..Len(lookups) |->
         CHOOSE f \in Names : lookups[i].where[f].k # "undefined"]

\* p's call ran its uniqueness check: a create with valid input, or an
\* update with valid data whose where found a row.
Checked(p) ==
  /\ pc[p] = "done"
  /\ Valid(p)
  /\ \/ call[p].op = "create"
     \/ call[p].op = "update" /\ found[p]

\* C25: the unique fields are the schema-level list followed by the fields
\* declared unique: true, each once; a uniqueness check looks up exactly
\* the unique fields the input gives a value, in that order, and stops at
\* the first collision, whose field alone the error names.
C25_LookupsInListedOrder ==
  \A p \in Procs :
    Checked(p) =>
      LET present == SelectSeq(ListedUnique,
                               LAMBDA f : call[p].data[f].k # "undefined")
          looked == LookedUp(p)
      IN  /\ Len(looked) <= Len(present)
          /\ \A i \in 1..Len(looked) : looked[i] = present[i]
          /\ LET uf == getUniqueFields(schema)
             IN  /\ \A i, j \in 1..Len(uf) : uf[i] = uf[j] => i = j
                 /\ Range(uf)
                      = Range(schema.unique)
                          \cup {f \in Range(schema.fields) :
                                  ~schema.defs[f].bare /\ schema.defs[f].unique}
          /\ IF outcome[p].kind = "unique"
             THEN /\ Len(looked) >= 1
                  /\ LET f == looked[Len(looked)]
                     IN  outcome[p].msg
                           = f \o " '" \o call[p].data[f].s
                               \o "' already exists"
             ELSE looked = present

\* A check that stops at the collision of its first field and leaves the
\* second, also present, alone.
C25_Witness ==
  \E p \in Procs :
    /\ Checked(p)
    /\ schema.table = "accounts"
    /\ call[p].data["phone"].k = "string"
    /\ call[p].data["email"].k = "string"
    /\ outcome[p].kind = "unique"
    /\ LookedUp(p) = <<"phone">>

\* -------------------------------------------------------------------- C26

\* Step i of p's call is a statement the store failed.
FailedAt(p, i) == steps[p][i].err # ""

\* p's call ended in the error of statement i, unchanged.
EndedBy(p, i) ==
  /\ i = Len(steps[p])
  /\ pc[p] = "done"
  /\ outcome[p].kind = "store"
  /\ outcome[p].name = "ResponseError"
  /\ outcome[p].msg = steps[p][i].err

\* The lookup statements of p's call for unique field f.
LookupsOf(p, f) ==
  {i \in 1..Len(steps[p]) :
     /\ steps[p][i].tag \in {"lookup", "fallback"}
     /\ steps[p][i].where[f].k # "undefined"}

\* C26: for each unique field the plain query comes first, and the query
\* with filtering is issued exactly when the plain one failed, for the same
\* field and value; it answers with a row that holds the value, or with
\* none when no row does; its failure ends the call with its error; no
\* field gets more than two lookup statements in one call.
C26_FallbackOnlyAfterFailure ==
  \A p \in Procs :
    LET st == steps[p]
    IN  /\ \A i \in 1..Len(st) :
             st[i].tag = "fallback" =>
               /\ i > 1
               /\ st[i - 1].tag = "lookup"
               /\ FailedAt(p, i - 1)
               /\ st[i - 1].where = st[i].where
               /\ IF FailedAt(p, i)
                  THEN EndedBy(p, i)
                  ELSE IF \E r \in snap[p] : Satisfies(r, st[i].where)
                  THEN st[i].cols \in snap[p]
                       /\ Satisfies(st[i].cols, st[i].where)
                  ELSE st[i].cols = EmptyObj
        /\ \A i \in 1..Len(st) :
             (st[i].tag = "lookup" /\ FailedAt(p, i)) =>
               \/ i = Len(st) /\ pc[p] = "fallback"
               \/ i < Len(st) /\ st[i + 1].tag = "fallback"
        /\ \A f \in Names : Cardinality(LookupsOf(p, f)) <= 2

\* The plain query failed and the query with filtering found the row that
\* holds the value.
C26_Witness ==
  \E p \in Procs :
    /\ pc[p] = "done"
    /\ outcome[p].kind = "unique"
    /\ \E i \in 2..Len(steps[p]) :
         /\ steps[p][i].tag = "fallback"
         /\ steps[p][i].cols \in snap[p]
         /\ FailedAt(p, i - 1)

\* -------------------------------------------------------------------- C27

C28_UniqueValuesStoredOnce ==
  \A f \in Range(getUniqueFields(schema)) :
    \A r1, r2 \in table :
      (r1[f].k # "undefined" /\ r1[f] = r2[f]) => r1 = r2

\* ---------------------------------------------------------------- C29

CreateTableRuns == Len(SelectSeq(ddl, LAMBDA q : q = "CREATE TABLE"))

\* C29: for one client and one table name, at most one model is constructed,
\* the CREATE TABLE statement runs at most once, and every loadSchema call
\* returns the same model, however the calls interleave.
C29_OneModelPerTable ==
  /\ constructed <= 1
  /\ CreateTableRuns <= 1
  /\ \A i, j \in 1..Len(returned) : returned[i] = returned[j]

\* ---------------------------------------------------------------- C30

\* The keys of the record that the schema does not declare.
Undeclared(data, sch) == Keys(data) \ Range(sch.fields)

\* C30: a key of the input record that is not a declared field does not make
\* convertObject fail, and its value is copied to the output unchanged.
C30_UndeclaredKeyCopied ==
  (fin.fn = "convertObject" /\ Undeclared(fin.data, fin.sch) # {}) =>
    /\ fout.threw = ""
    /\ \A key \in Undeclared(fin.data, fin.sch) : fout.ret[key] = fin.data[key]

\* create of a record with an undeclared key ends in the TypeError of
\* convertObject and stores nothing.
CreateOfUndeclaredKeyThrows ==
  \E p \in Procs :
    /\ pc[p] = "done"
    /\ call[p].op = "create"
    /\ Undeclared(call[p].data, schema) # {}
    /\ outcome[p].name = "TypeError"

====
